---- MODULE Spec2Model ----
(***************************************************************************)
(* A model of papaya (umd-lib/papaya): the translation of repository       *)
(* documents into IIIF Presentation 2 manifests.                           *)
(*                                                                         *)
(* Strings are sequences of one-character strings, so that startswith,     *)
(* removeprefix, replace, split and re.match are computed as Python        *)
(* computes them.  Each component has its own variables and its own        *)
(* specification; a specification leaves the other components idle.        *)
(***************************************************************************)
EXTENDS Integers, Sequences, FiniteSets, TLC

VARIABLES
    repo_service,   \* RepositoryService: [endpoint, prefix, path_sep]
    repo_input,     \* the string handed to the first translation
    repo_cur,       \* the string the next translation is applied to
    repo_trace,     \* the translations applied so far, in order
    repo_last,      \* outcome of the last translation: [ok, err, val]
    fmt_value,      \* a raw metadata value handed to format_value
    fmt_values,     \* a sequence of raw values handed to format_language_tags
    fmt_out,        \* [op, result] of the last formatting call
    res_keys,       \* Resource.metadata_queries: its keys, in mapping order
    res_results,    \* what each compiled query yields on Resource.doc, in order
    res_out,        \* [op, arg, result] of the last Resource accessor call
    img_service,    \* ImageService: [thumbnail_width]
    img_response,   \* what the image server answers: [kind, width, height]
    img_info,       \* Image.info, the cached ImageInfo (NoInfo before the first access)
    img_fetches,    \* number of ImageService.get_metadata calls made for the Image
    img_out,        \* [op, result] of the last Image call
    solr_response,  \* what Solr answers to the highlighting query: [kind, fragments]
    search_out,     \* [op, index, result] of the last SolrService search call
    man_id,         \* Manifest.id, the identifier of the request
    man_lookup,     \* what looking the identifier up in the backend gives
    man_images,     \* what the image server answers for each image id
    man_text_query, \* Manifest.text_query (NoQuery for None)
    man_logo,       \* ctx.logo_url (NoLogo for None)
    man_cache,      \* the cached properties of the Manifest and its nodes
    man_out,        \* [op, arg, result] of the last call on the Manifest
    man_calls,      \* number of accesses made on the Manifest object
    ctx_service,    \* the context's RepositoryService: [endpoint, prefix, path_sep]
    ctx_index,      \* the Solr core: [fault, docs]
    ctx_arg,        \* the resource URI or IIIF id a lookup is asked for
    ctx_queries,    \* number of searches sent to the Solr core
    ctx_out,        \* [op, result] of the last lookup
    par_cell,       \* the lazy field's entry in the shared node's __dict__ (NotFound before a store)
    par_fetches,    \* number of times the field's function has run on the shared node
    par_pc,         \* where each caller is in cached_property.__get__
    par_val         \* each caller's local val

repo_vars == <<repo_service, repo_input, repo_cur, repo_trace, repo_last>>
fmt_vars == <<fmt_value, fmt_values, fmt_out>>
res_vars == <<res_keys, res_results, res_out>>
img_vars == <<img_service, img_response, img_info, img_fetches, img_out>>
search_vars == <<solr_response, search_out>>
man_vars == <<man_id, man_lookup, man_images, man_text_query, man_logo, man_cache, man_out,
              man_calls>>
ctx_vars == <<ctx_service, ctx_index, ctx_arg, ctx_queries, ctx_out>>
par_vars == <<par_cell, par_fetches, par_pc, par_val>>

vars == <<repo_vars, fmt_vars, res_vars, img_vars, search_vars, man_vars, ctx_vars, par_vars>>

\* A component that takes no part in the specification being checked.
RepoIdle ==
    /\ repo_service = [endpoint |-> <<>>, prefix |-> <<>>, path_sep |-> ""]
    /\ repo_input = <<>> /\ repo_cur = <<>> /\ repo_trace = <<>>
    /\ repo_last = [ok |-> TRUE, err |-> "", val |-> <<>>]
FmtIdle ==
    /\ fmt_value = <<>> /\ fmt_values = <<>>
    /\ fmt_out = [op |-> "", result |-> <<>>]
ResIdle ==
    /\ res_keys = <<>> /\ res_results = <<>>
    /\ res_out = [op |-> "", arg |-> "", result |-> <<>>]
ImgIdle ==
    /\ img_service = [thumbnail_width |-> 0]
    /\ img_response = [kind |-> "", width |-> 0, height |-> 0]
    /\ img_info = <<>> /\ img_fetches = 0
    /\ img_out = [op |-> "", result |-> <<>>]
SearchIdle ==
    /\ solr_response = [kind |-> "", fragments |-> <<>>]
    /\ search_out = [op |-> "", index |-> -1, result |-> <<>>]
ManIdle ==
    /\ man_id = <<>> /\ man_lookup = "" /\ man_images = <<>>
    /\ man_text_query = "" /\ man_logo = "" /\ man_cache = <<>>
    /\ man_out = [op |-> "", arg |-> <<>>, result |-> <<>>]
    /\ man_calls = 0
CtxIdle ==
    /\ ctx_service = [endpoint |-> <<>>, prefix |-> <<>>, path_sep |-> ""]
    /\ ctx_index = [fault |-> "", docs |-> <<>>]
    /\ ctx_arg = <<>> /\ ctx_queries = 0
    /\ ctx_out = [op |-> "", result |-> <<>>]
ParIdle ==
    /\ par_cell = <<>> /\ par_fetches = 0
    /\ par_pc = <<>> /\ par_val = <<>>

-----------------------------------------------------------------------------
(* Bounds *)

MaxTail == 4        \* longest string appended to the endpoint / prefix
MaxValueLen == 4    \* longest raw metadata value
MaxValues == 2      \* longest sequence of raw metadata values
MaxKeys == 3        \* most keys of a metadata query mapping
MaxResults == 2     \* most results of one descriptive query
MaxPages == 3       \* most pages (and most image ids) of a document
MaxDim == 4         \* image widths and heights 1..MaxDim (besides 1024 and 768)
MaxThumb == 3       \* thumbnail widths 1..MaxThumb (besides the default)
MaxFetches == 2     \* most fetches attempted for one Image
MaxSegments == 4    \* most delimiter-separated segments in one Solr response
MaxPageIndex == 2   \* page indexes 0..MaxPageIndex asked for
MaxCanvases == 2    \* most pages of a document a manifest is built from
MaxDocs == 2        \* most documents in the Solr core
MaxCallers == 3     \* callers that may share one node
MaxCalls == 2       \* most accesses made on one Manifest object

-----------------------------------------------------------------------------
(* Python str operations *)

\* All strings over alphabet A of length <= n.
StringsUpTo(A, n) == UNION {[1..k -> A] : k \in 0..n}

\* s.startswith(p)
StartsWith(s, p) == Len(p) <= Len(s) /\ SubSeq(s, 1, Len(p)) = p

\* s.removeprefix(p)
RemovePrefix(s, p) == IF StartsWith(s, p) THEN SubSeq(s, Len(p) + 1, Len(s)) ELSE s

\* s.replace(old, new) for a non-empty old: every non-overlapping occurrence,
\* leftmost first.
RECURSIVE Replace(_, _, _)
Replace(s, old, new) ==
    IF Len(s) < Len(old) THEN s
    ELSE IF SubSeq(s, 1, Len(old)) = old
         THEN new \o Replace(SubSeq(s, Len(old) + 1, Len(s)), old, new)
         ELSE <<s[1]>> \o Replace(Tail(s), old, new)

\* old occurs somewhere in s
RECURSIVE Contains(_, _)
Contains(s, old) ==
    IF Len(s) < Len(old) THEN FALSE
    ELSE StartsWith(s, old) \/ Contains(Tail(s), old)

\* Outcome of a call: a returned value or a raised exception.
Return(v) == [ok |-> TRUE, err |-> "", val |-> v]
Raise(e)  == [ok |-> FALSE, err |-> e, val |-> <<>>]

-----------------------------------------------------------------------------
(* source.py: RepositoryService *)

\* get_resource_uri without the prefix test
get_resource_uri_unchecked(svc, iiif_id) ==
    Return(svc.endpoint \o (<<"/">> \o
           Replace(RemovePrefix(iiif_id, svc.prefix), <<svc.path_sep>>, <<"/">>)))

get_resource_uri(svc, iiif_id) ==
    IF ~StartsWith(iiif_id, svc.prefix)
    THEN Raise("IdentifierError")
    ELSE LET local_part == RemovePrefix(iiif_id, svc.prefix)
             repo_path  == <<"/">> \o Replace(local_part, <<svc.path_sep>>, <<"/">>)
         IN  Return(svc.endpoint \o repo_path)

get_iiif_id(svc, resource_uri) ==
    IF ~StartsWith(resource_uri, svc.endpoint)
    THEN Raise("URLError")
    ELSE Return(Replace(Replace(resource_uri, svc.endpoint \o <<"/">>, svc.prefix),
                        <<"/">>, <<svc.path_sep>>))

\* Configurations and inputs
RepoChars == {"/", ":", "-", "h", "a"}
Endpoints == {<<"h">>, <<"h", ":", "/", "r">>}
Prefixes  == {<<"p", ":">>, <<"p">>}
PathSeps  == {":", "-"}
RepoServices == [endpoint : Endpoints, prefix : Prefixes, path_sep : PathSeps]
RepoTails == StringsUpTo(RepoChars, MaxTail)

RepoInit ==
    /\ repo_service \in RepoServices
    /\ \E t \in RepoTails :
          repo_input \in {repo_service.endpoint \o t, repo_service.prefix \o t, t}
    /\ repo_cur = repo_input
    /\ repo_trace = <<>>
    /\ repo_last = Return(<<>>)
    /\ FmtIdle /\ ResIdle /\ ImgIdle /\ SearchIdle /\ ManIdle /\ CtxIdle /\ ParIdle

\* One call of RepositoryService.get_iiif_id on the current string.
GetIiifId ==
    /\ Len(repo_trace) < 2
    /\ repo_last.ok
    /\ LET r == get_iiif_id(repo_service, repo_cur)
       IN  /\ repo_last' = r
           /\ repo_cur' = IF r.ok THEN r.val ELSE repo_cur
    /\ repo_trace' = Append(repo_trace, "get_iiif_id")
    /\ UNCHANGED <<repo_service, repo_input, fmt_vars, res_vars, img_vars, search_vars, man_vars, ctx_vars, par_vars>>

\* One call of RepositoryService.get_resource_uri on the current string.
GetResourceUri ==
    /\ Len(repo_trace) < 2
    /\ repo_last.ok
    /\ LET r == get_resource_uri(repo_service, repo_cur)
       IN  /\ repo_last' = r
           /\ repo_cur' = IF r.ok THEN r.val ELSE repo_cur
    /\ repo_trace' = Append(repo_trace, "get_resource_uri")
    /\ UNCHANGED <<repo_service, repo_input, fmt_vars, res_vars, img_vars, search_vars, man_vars, ctx_vars, par_vars>>

RepoNext == GetIiifId \/ GetResourceUri

SpecRepo == RepoInit /\ [][RepoNext]_vars

-----------------------------------------------------------------------------
(* Claims on RepositoryService *)

\* C1: for every address that starts with the endpoint, get_iiif_id succeeds
\* and get_resource_uri(get_iiif_id(a)) = a.
C1_AddressRoundTrip ==
    StartsWith(repo_input, repo_service.endpoint) =>
        /\ (repo_trace = <<"get_iiif_id">> => repo_last.ok)
        /\ (repo_trace = <<"get_iiif_id", "get_resource_uri">> =>
                repo_last.ok /\ repo_last.val = repo_input)

\* C2: for every identifier that starts with the prefix, get_resource_uri
\* succeeds and get_iiif_id(get_resource_uri(i)) = i.
C2_IdentifierRoundTrip ==
    StartsWith(repo_input, repo_service.prefix) =>
        /\ (repo_trace = <<"get_resource_uri">> => repo_last.ok)
        /\ (repo_trace = <<"get_resource_uri", "get_iiif_id">> =>
                repo_last.ok /\ repo_last.val = repo_input)

\* C3: an identifier without the prefix fails with IdentifierError, an address
\* outside the endpoint fails with URLError, and neither returns a value.
C3_PrefixRejection ==
    /\ (repo_trace = <<"get_resource_uri">>
          /\ ~StartsWith(repo_input, repo_service.prefix))
         => (~repo_last.ok /\ repo_last.err = "IdentifierError"
               /\ repo_last.val = <<>> /\ repo_cur = repo_input)
    /\ (repo_trace = <<"get_iiif_id">>
          /\ ~StartsWith(repo_input, repo_service.endpoint))
         => (~repo_last.ok /\ repo_last.err = "URLError"
               /\ repo_last.val = <<>> /\ repo_cur = repo_input)

C3_Witness ==
    /\ repo_trace = <<"get_resource_uri">>
    /\ ~StartsWith(repo_input, repo_service.prefix)
    /\ Len(repo_input) > 0
    /\ repo_last.err = "IdentifierError"

-----------------------------------------------------------------------------
(* source.py: format_value *)

\* Position of the first occurrence of character c in s at or after i, 0 if none.
RECURSIVE Find(_, _, _)
Find(s, c, i) ==
    IF i > Len(s) THEN 0
    ELSE IF s[i] = c THEN i ELSE Find(s, c, i + 1)

\* re.match(r'\[@(.*?)](.*)', value): '.' matches any character but a newline;
\* the lazy group stops at the first ']', the greedy group at the first newline
\* or the end of the string.  [matched, g1, g2]
TagMatch(value) ==
    LET close == Find(value, "]", 3)
        nl1   == Find(value, "\n", 3)
    IN  IF StartsWith(value, <<"[", "@">>) /\ close > 0 /\ (nl1 = 0 \/ nl1 > close)
        THEN LET nl2  == Find(value, "\n", close + 1)
                 last == IF nl2 = 0 THEN Len(value) ELSE nl2 - 1
             IN  [matched |-> TRUE,
                  g1 |-> SubSeq(value, 3, close - 1),
                  g2 |-> SubSeq(value, close + 1, last)]
        ELSE [matched |-> FALSE, g1 |-> <<>>, g2 |-> <<>>]

\* A formatted value: a JSON-LD pair {'@language', '@value'} or the bare string.
Tagged(l, v) == [tagged |-> TRUE, language |-> l, value |-> v]
Bare(v) == [tagged |-> FALSE, language |-> <<>>, value |-> v]

format_value(value) ==
    LET m == TagMatch(value)
    IN  IF m.matched THEN Tagged(m.g1, m.g2) ELSE Bare(value)

\* format_language_tags(values): format_value applied to each value in turn.
format_language_tags(values) == [i \in 1..Len(values) |-> format_value(values[i])]

ValueChars == {"[", "@", "]", "d", "\n"}
RawValues == StringsUpTo(ValueChars, MaxValueLen)
\* '[@de]der Hund' and 'simple' of the tests, shortened
SampleValues == {<<"[", "@", "d", "]", "H">>, <<"s">>}
SampleSeqs == StringsUpTo(SampleValues, MaxValues)

FmtInit ==
    /\ fmt_value \in RawValues
    /\ fmt_values \in SampleSeqs
    /\ fmt_out = [op |-> "", result |-> <<>>]
    /\ RepoIdle /\ ResIdle /\ ImgIdle /\ SearchIdle /\ ManIdle /\ CtxIdle /\ ParIdle

FormatValue ==
    /\ fmt_out.op = ""
    /\ fmt_out' = [op |-> "format_value", result |-> format_value(fmt_value)]
    /\ UNCHANGED <<fmt_value, fmt_values, repo_vars, res_vars, img_vars, search_vars, man_vars, ctx_vars, par_vars>>

FormatLanguageTags ==
    /\ fmt_out.op = ""
    /\ fmt_out' = [op |-> "format_language_tags", result |-> format_language_tags(fmt_values)]
    /\ UNCHANGED <<fmt_value, fmt_values, repo_vars, res_vars, img_vars, search_vars, man_vars, ctx_vars, par_vars>>

FmtNext == FormatValue \/ FormatLanguageTags

SpecFormat == FmtInit /\ [][FmtNext]_vars

\* The language code and text of a raw value "[@" + c + "]" + t with no ']' in c.
HasTag(v) == StartsWith(v, <<"[", "@">>) /\ Find(v, "]", 3) > 0
TagCode(v) == SubSeq(v, 3, Find(v, "]", 3) - 1)
TagText(v) == SubSeq(v, Find(v, "]", 3) + 1, Len(v))

\* C4: "[@" + c + "]" + t is normalised to the pair (c, t) with t in full, a
\* value without a leading tag is returned unchanged, and a sequence is
\* normalised element by element, keeping length and order.
C4_LanguageTagNormalisation ==
    /\ fmt_out.op = "format_value" =>
          fmt_out.result = IF HasTag(fmt_value)
                           THEN Tagged(TagCode(fmt_value), TagText(fmt_value))
                           ELSE Bare(fmt_value)
    /\ fmt_out.op = "format_language_tags" =>
          /\ Len(fmt_out.result) = Len(fmt_values)
          /\ \A i \in 1..Len(fmt_values) :
                fmt_out.result[i] = IF HasTag(fmt_values[i])
                                    THEN Tagged(TagCode(fmt_values[i]), TagText(fmt_values[i]))
                                    ELSE Bare(fmt_values[i])

-----------------------------------------------------------------------------
(* source.py: Resource *)

\* Query keys, written as the leading marker characters and the rest of the name.
K_uri            == <<"$", "uri">>
K_label          == <<"$", "label">>
K_date           == <<"$", "date">>
K_license_uri    == <<"$", "license_uri">>
K_description    == <<"$", "description">>
K_page_uris      == <<"$", "page_uris">>
K_page_image_ids == <<"$", "page_image_ids">>
K_page_label     == <<"$", "*", "page_label">>
K_Title          == <<"Title">>
K_Creator        == <<"Creator">>

\* JSON null among the results of a query
Null == <<"null">>

\* Resource._query(key): the results of the key's compiled program on the
\* document; a key without a compiled program is a KeyError.
HasProgram(keys, key) ==
    (\E i \in 1..Len(keys) : keys[i] = key) /\ ~StartsWith(key, <<"$", "*">>)
Query(results, key) == results[key]

NotNone(v) == v # Null
NonEmptyValue(m) == m.value # <<>>
IsDescriptiveKey(k) == ~StartsWith(k, <<"$">>)

\* Resource.metadata that keeps the entries whose value list is empty
metadata_keep_empty(keys, results) ==
    LET ks == SelectSeq(keys, IsDescriptiveKey)
    IN  [i \in 1..Len(ks) |->
            [label |-> ks[i],
             value |-> LET vs == SelectSeq(Query(results, ks[i]), NotNone)
                       IN  [j \in 1..Len(vs) |-> format_value(vs[j])]]]

\* Resource.metadata
metadata(keys, results) ==
    LET ks == SelectSeq(keys, IsDescriptiveKey)
        md == [i \in 1..Len(ks) |->
                 [label |-> ks[i],
                  value |-> LET vs == SelectSeq(Query(results, ks[i]), NotNone)
                            IN  [j \in 1..Len(vs) |-> format_value(vs[j])]]]
    IN  SelectSeq(md, NonEmptyValue)

\* list.index(x) that counts from one
RECURSIVE ListIndexFromOne(_, _)
ListIndexFromOne(list, x) ==
    IF list = <<>> THEN Raise("ValueError")
    ELSE IF Head(list) = x THEN Return(1)
    ELSE LET r == ListIndexFromOne(Tail(list), x)
         IN  IF r.ok THEN Return(r.val + 1) ELSE r

\* list.index(x): the 0-based position of the first element equal to x,
\* ValueError when there is none
RECURSIVE ListIndex(_, _)
ListIndex(list, x) ==
    IF list = <<>> THEN Raise("ValueError")
    ELSE IF Head(list) = x THEN Return(0)
    ELSE LET r == ListIndex(Tail(list), x)
         IN  IF r.ok THEN Return(r.val + 1) ELSE r

\* list[i] for a 0-based i >= 0
Subscript(list, i) ==
    IF i < Len(list) THEN Return(list[i + 1]) ELSE Raise("IndexError")

\* jq's first(): the first result; with no result the iterator is exhausted.
First(list) == IF list = <<>> THEN Raise("StopIteration") ELSE Return(list[1])

\* sep.join(values) for strings; a value that is None is a TypeError
RECURSIVE Concat(_, _)
Concat(values, sep) ==
    IF values = <<>> THEN <<>>
    ELSE IF Len(values) = 1 THEN values[1]
    ELSE values[1] \o sep \o Concat(Tail(values), sep)
Join(sep, values) ==
    IF \E i \in 1..Len(values) : values[i] = Null THEN Raise("TypeError")
    ELSE Return(Concat(values, sep))

SEPARATOR == <<" ", "/", " ">>

\* A label that takes the first value, as date does
label_first(results) == First(Query(results, K_label))

\* Resource.label and Resource.description
label(results) == Join(SEPARATOR, Query(results, K_label))
description(results) == Join(SEPARATOR, Query(results, K_description))

\* Resource.date and Resource.license
date(results) == First(Query(results, K_date))
license(results) == First(Query(results, K_license_uri))

\* Resource.page_uris
page_uris(results) == Query(results, K_page_uris)

\* An index that answers the first page for a page it does not find
index_or_first(results, page_uri) ==
    IF ListIndex(page_uris(results), page_uri).ok
    THEN ListIndex(page_uris(results), page_uri) ELSE Return(0)

\* Resource.index(page_uri)
index(results, page_uri) == ListIndex(page_uris(results), page_uri)

\* Resource.get_page_image_id(page_uri)
get_page_image_id(results, page_uri) ==
    LET ids == Query(results, K_page_image_ids)
        i   == index(results, page_uri)
    IN  IF i.ok THEN Subscript(ids, i.val) ELSE i

\* Inputs: mappings and documents
KeyPool == {K_label, K_page_label, K_Title, K_Creator}
KeySeqs == {ks \in StringsUpTo(KeyPool, MaxKeys) :
               \A i, j \in 1..Len(ks) : i # j => ks[i] # ks[j]}
ResultPool == {Null, <<"s">>, <<"[", "@", "d", "]", "H">>}
ResultSeqs == StringsUpTo(ResultPool, MaxResults)
TitleResults == {<<>>, <<Null>>, <<<<"s">>>>}
PagePool == {"p1", "p2", "p3"}
ImagePool == {"i1", "i2", "i3"}
PageArgs == PagePool \cup {"p9"}

ScalarDefaults ==
    (K_date :> <<<<"s">>>>) @@ (K_license_uri :> <<<<"s">>>>) @@ (K_description :> <<<<"s">>>>)

\* Either the descriptive queries vary over a fixed page list, or the page
\* lists vary over fixed descriptive queries, or the values of the scalar
\* fields vary, the label's values being the Title field's too.
ResInit ==
    /\ \/ /\ res_keys \in KeySeqs
          /\ \E t \in TitleResults, c \in ResultSeqs :
                res_results = (K_label :> <<<<"s">>>>) @@ (K_Title :> t) @@ (K_Creator :> c)
                              @@ (K_page_uris :> <<"p1">>) @@ (K_page_image_ids :> <<"i1">>)
                              @@ ScalarDefaults
       \/ /\ res_keys = <<K_page_uris, K_page_image_ids, K_Title>>
          /\ \E ps \in StringsUpTo(PagePool, MaxPages), is \in StringsUpTo(ImagePool, MaxPages) :
                res_results = (K_label :> <<<<"s">>>>) @@ (K_Title :> <<<<"s">>>>) @@ (K_Creator :> <<>>)
                              @@ (K_page_uris :> ps) @@ (K_page_image_ids :> is)
                              @@ ScalarDefaults
       \/ /\ res_keys = <<K_label, K_date, K_license_uri, K_description, K_Title>>
          /\ \E vs \in ResultSeqs, ws \in ResultSeqs :
                res_results = (K_label :> vs) @@ (K_Title :> vs) @@ (K_Creator :> <<>>)
                              @@ (K_date :> ws) @@ (K_license_uri :> ws) @@ (K_description :> ws)
                              @@ (K_page_uris :> <<"p1">>) @@ (K_page_image_ids :> <<"i1">>)
    /\ res_out = [op |-> "", arg |-> "", result |-> <<>>]
    /\ RepoIdle /\ FmtIdle /\ ImgIdle /\ SearchIdle /\ ManIdle /\ CtxIdle /\ ParIdle

\* Resource.metadata
Metadata ==
    /\ res_out.op = ""
    /\ res_out' = [op |-> "metadata", arg |-> "", result |-> metadata(res_keys, res_results)]
    /\ UNCHANGED <<res_keys, res_results, repo_vars, fmt_vars, img_vars, search_vars, man_vars, ctx_vars, par_vars>>

\* Resource.index(page_uri)
Index ==
    /\ res_out.op = ""
    /\ \E p \in PageArgs :
          res_out' = [op |-> "index", arg |-> p, result |-> index(res_results, p)]
    /\ UNCHANGED <<res_keys, res_results, repo_vars, fmt_vars, img_vars, search_vars, man_vars, ctx_vars, par_vars>>

\* Resource.get_page_image_id(page_uri)
GetPageImageId ==
    /\ res_out.op = ""
    /\ \E p \in PageArgs :
          res_out' = [op |-> "get_page_image_id", arg |-> p,
                      result |-> get_page_image_id(res_results, p)]
    /\ UNCHANGED <<res_keys, res_results, repo_vars, fmt_vars, img_vars, search_vars, man_vars, ctx_vars, par_vars>>

\* Resource.label, Resource.date, Resource.license, Resource.description
Scalar(op, value) ==
    /\ res_out.op = ""
    /\ res_out' = [op |-> op, arg |-> "", result |-> value]
    /\ UNCHANGED <<res_keys, res_results, repo_vars, fmt_vars, img_vars, search_vars, man_vars, ctx_vars, par_vars>>
Label       == Scalar("label", label(res_results))
Date        == Scalar("date", date(res_results))
License     == Scalar("license", license(res_results))
Description == Scalar("description", description(res_results))

ResNext == Metadata \/ Index \/ GetPageImageId \/ Label \/ Date \/ License \/ Description

SpecResource == ResInit /\ [][ResNext]_vars

-----------------------------------------------------------------------------
(* Claims on Resource *)

KeyPos(k) == CHOOSE i \in 1..Len(res_keys) : res_keys[i] = k
NonNullResults(k) == SelectSeq(res_results[k], NotNone)
KeyHasEntry(k) ==
    /\ \E i \in 1..Len(res_keys) : res_keys[i] = k
    /\ k[1] # "$"
    /\ \E j \in 1..Len(res_results[k]) : res_results[k][j] # Null

C6_PageIndexing ==
    LET ps == res_results[K_page_uris]
        is == res_results[K_page_image_ids]
        at == CHOOSE i \in 1..Len(ps) :
                 ps[i] = res_out.arg /\ \A j \in 1..(i - 1) : ps[j] # res_out.arg
    IN  (\E i \in 1..Len(ps) : ps[i] = res_out.arg) =>
          /\ res_out.op = "index" =>
                res_out.result.ok /\ res_out.result.val = at - 1
          /\ (res_out.op = "get_page_image_id" /\ at <= Len(is)) =>
                res_out.result.ok /\ res_out.result.val = is[at]

C6_Witness ==
    /\ res_out.op = "get_page_image_id"
    /\ res_results[K_page_uris] = <<"p1", "p2", "p3">>
    /\ res_results[K_page_image_ids] = <<"i1", "i2", "i3">>
    /\ res_out.arg = "p3"
    /\ res_out.result = Return("i3")

PageAbsent == \A i \in 1..Len(res_results[K_page_uris]) : res_results[K_page_uris][i] # res_out.arg

\* C19 (as the code has it): for a page URI that is not in the page list,
\* index and get_page_image_id raise the built-in ValueError of list.index and
\* return no value, so never the index or image id of another page.
C19_PageLookupFailure ==
    (res_out.op \in {"index", "get_page_image_id"} /\ PageAbsent) =>
        /\ ~res_out.result.ok
        /\ res_out.result.err = "ValueError"
        /\ res_out.result.val = <<>>

\* C19 (as stated): for a page URI that is not in the page list, index and
\* get_page_image_id fail with the error kind PageNotFound.
C19_PageNotFoundKind ==
    (res_out.op \in {"index", "get_page_image_id"} /\ PageAbsent) =>
        /\ ~res_out.result.ok
        /\ res_out.result.err = "PageNotFound"

C19_Witness ==
    /\ res_out.op = "get_page_image_id"
    /\ res_out.arg = "p9"
    /\ res_results[K_page_uris] = <<"p1", "p2">>
    /\ res_results[K_page_image_ids] = <<"i1", "i2">>
    /\ res_out.result = Raise("ValueError")

C19_WitnessIndex ==
    /\ res_out.op = "index"
    /\ res_out.arg = "p3"
    /\ res_results[K_page_uris] = <<"p1", "p2">>
    /\ res_out.result = Raise("ValueError")

\* v1 + ' / ' + v2 + ... + ' / ' + vn, for up to four values
Joined(vs) ==
    CASE Len(vs) = 0 -> <<>>
      [] Len(vs) = 1 -> vs[1]
      [] Len(vs) = 2 -> vs[1] \o <<" ", "/", " ">> \o vs[2]
      [] Len(vs) = 3 -> vs[1] \o <<" ", "/", " ">> \o vs[2] \o <<" ", "/", " ">> \o vs[3]
      [] Len(vs) = 4 -> vs[1] \o <<" ", "/", " ">> \o vs[2] \o <<" ", "/", " ">> \o vs[3]
                              \o <<" ", "/", " ">> \o vs[4]
NoNull(vs) == \A i \in 1..Len(vs) : vs[i] # Null
TitleEntries == SelectSeq(res_out.result, LAMBDA m : m.label = K_Title)

\* What label, description and the metadata field do with their values
JoinedAndKept ==
    /\ (res_out.op = "label" /\ NoNull(res_results[K_label])) =>
          res_out.result = Return(Joined(res_results[K_label]))
    /\ (res_out.op = "description" /\ NoNull(res_results[K_description])) =>
          res_out.result = Return(Joined(res_results[K_description]))
    /\ (res_out.op = "metadata" /\ NoNull(res_results[K_Title]) /\ res_results[K_Title] # <<>>
            /\ \E i \in 1..Len(res_keys) : res_keys[i] = K_Title) =>
          /\ Len(TitleEntries) = 1
          /\ Len(TitleEntries[1].value) = Len(res_results[K_Title])
          /\ \A j \in 1..Len(res_results[K_Title]) :
                TitleEntries[1].value[j] = format_value(res_results[K_Title][j])

\* C20 (as the code has it): label and description are their values joined
\* with ' / ' in extraction order, one value being returned as is; date and
\* license are the first value alone; the same values as a metadata field are
\* kept as a sequence of as many (normalised) elements.
C20_ScalarFields ==
    /\ JoinedAndKept
    /\ (res_out.op = "date" /\ res_results[K_date] # <<>>) =>
          res_out.result = Return(res_results[K_date][1])
    /\ (res_out.op = "license" /\ res_results[K_license_uri] # <<>>) =>
          res_out.result = Return(res_results[K_license_uri][1])

\* C20 (as stated): the date too is its values joined with ' / '.
C20_ScalarJoining ==
    /\ JoinedAndKept
    /\ (res_out.op = "date" /\ NoNull(res_results[K_date])) =>
          res_out.result = Return(Joined(res_results[K_date]))

C20_Witness ==
    /\ res_out.op = "label"
    /\ res_results[K_label] = <<<<"[", "@", "d", "]", "H">>, <<"s">>>>
    /\ res_out.result = Return(<<"[", "@", "d", "]", "H", " ", "/", " ", "s">>)

C20_WitnessDate ==
    /\ res_out.op = "date"
    /\ res_results[K_date] = <<<<"[", "@", "d", "]", "H">>, <<"s">>>>
    /\ res_out.result = Return(<<"[", "@", "d", "]", "H">>)

C20_WitnessMetadata ==
    /\ res_out.op = "metadata"
    /\ res_results[K_Title] = <<<<"[", "@", "d", "]", "H">>, <<"s">>>>
    /\ Len(TitleEntries[1].value) = 2

-----------------------------------------------------------------------------
(* iiif2.py: ImageParams, ImageInfo, ImageService, Image *)

DEFAULT_THUMBNAIL_WIDTH == 250

\* str(n) of a natural number
Digit(d) == <<"0", "1", "2", "3", "4", "5", "6", "7", "8", "9">>[d + 1]
RECURSIVE IntToStr(_)
IntToStr(n) == IF n < 10 THEN <<Digit(n)>> ELSE IntToStr(n \div 10) \o <<Digit(n % 10)>>

RECURSIVE GCD(_, _)
GCD(a, b) == IF b = 0 THEN a ELSE GCD(b, a % b)

\* fractions.Fraction(n, d) for positive n and d, in lowest terms
Fraction(n, d) == [num |-> n \div GCD(n, d), den |-> d \div GCD(n, d)]

\* i / f for an int i and a Fraction f
IntOverFraction(i, f) == Fraction(i * f.den, f.num)

\* round(f): to the nearest integer, halves to even
RoundFraction(f) ==
    LET q == f.num \div f.den
        r == 2 * (f.num % f.den)
    IN  IF r > f.den \/ (r = f.den /\ q % 2 = 1) THEN q + 1 ELSE q

\* int(f) for a Fraction f >= 0: truncation
IntOfFraction(f) == f.num \div f.den

\* ImageParams and ImageParams.__str__
ImageParams(region, size, rotation, quality, format) ==
    [region |-> region, size |-> size, rotation |-> rotation,
     quality |-> quality, format |-> format]
S_full    == <<"f", "u", "l", "l">>
S_default == <<"d", "e", "f", "a", "u", "l", "t">>
S_jpg     == <<"j", "p", "g">>
FULL_IMAGE_PARAMS == ImageParams(S_full, S_full, <<"0">>, S_default, S_jpg)
ImageParamsStr(p) ==
    <<"/">> \o p.region \o <<"/">> \o p.size \o <<"/">> \o p.rotation
            \o <<"/">> \o p.quality \o <<".">> \o p.format

\* ImageInfo and ImageInfo.aspect_ratio
NoInfo == <<>>
ImageInfo(uri, width, height) ==
    [uri |-> uri, context |-> "context", profile |-> "profile",
     width |-> width, height |-> height]
aspect_ratio(info) == Fraction(info.width, info.height)

\* ImageService.get_metadata(image_id), given what the server answers.
\* A ConnectionError and a non-success status become ImageServiceError; any
\* other exception of requests.get is not caught.  A successful response
\* whose JSON lacks one of the fields read gives the KeyError of info[...].
ImageBaseUri == <<"u">>
get_metadata(response) ==
    CASE response.kind = "ConnectionError" -> Raise("ImageServiceError")
      [] response.kind = "ReadTimeout"     -> Raise("ReadTimeout")
      [] response.kind = "TooManyRedirects" -> Raise("TooManyRedirects")
      [] response.kind = "bad_status"      -> Raise("ImageServiceError")
      [] response.kind = "missing_field"   -> Raise("KeyError")
      [] OTHER -> Return(ImageInfo(ImageBaseUri, response.width, response.height))

\* Image.info: the cached value, or the outcome of a fetch
InfoOf(cached, response) == IF cached # NoInfo THEN Return(cached) ELSE get_metadata(response)

\* Image.uri, given info
ImageUri(info, iiif_params) ==
    IF iiif_params # <<>> THEN info.uri \o ImageParamsStr(iiif_params) ELSE info.uri

\* Image.to_dict, given info
ImageToDict(info, iiif_params) ==
    [id |-> ImageUri(info, iiif_params),
     type |-> "dctypes:Image",
     service |-> [context |-> info.context, id |-> info.uri, profile |-> info.profile],
     format |-> "image/jpeg",
     height |-> info.height,
     width |-> info.width]

\* Image.thumbnail_dict with round() in place of int()
ThumbnailDictRounded(service, info, iiif_params) ==
    LET width  == service.thumbnail_width
        height == RoundFraction(IntOverFraction(width, aspect_ratio(info)))
        thumbnail_params ==
            ImageParams(S_full, IntToStr(width) \o <<",">> \o IntToStr(height),
                        <<"0">>, S_default, S_jpg)
    IN  [ImageToDict(info, iiif_params) EXCEPT
            !.id = info.uri \o ImageParamsStr(thumbnail_params),
            !.height = height,
            !.width = width]

\* Image.thumbnail_dict, given info
ThumbnailDict(service, info, iiif_params) ==
    LET width  == service.thumbnail_width
        height == IntOfFraction(IntOverFraction(width, aspect_ratio(info)))
        thumbnail_params ==
            ImageParams(S_full, IntToStr(width) \o <<",">> \o IntToStr(height),
                        <<"0">>, S_default, S_jpg)
    IN  [ImageToDict(info, iiif_params) EXCEPT
            !.id = info.uri \o ImageParamsStr(thumbnail_params),
            !.height = height,
            !.width = width]

Dims == (1..MaxDim) \cup {768, 1024}
ThumbnailWidths == (1..MaxThumb) \cup {DEFAULT_THUMBNAIL_WIDTH}
ImgResponses ==
    [kind : {"ok"}, width : Dims, height : Dims]
    \cup [kind : {"ConnectionError", "ReadTimeout", "TooManyRedirects", "bad_status"},
          width : {0}, height : {0}]

ImgInit ==
    /\ img_service \in [thumbnail_width : ThumbnailWidths]
    /\ img_response \in ImgResponses
    /\ img_info = NoInfo
    /\ img_fetches = 0
    /\ img_out = [op |-> "", result |-> <<>>]
    /\ RepoIdle /\ FmtIdle /\ ResIdle /\ SearchIdle /\ ManIdle /\ CtxIdle /\ ParIdle

\* What each call on the Image returns, given Image.info
ImageResult(op, info) ==
    CASE op = "aspect_ratio"   -> aspect_ratio(info)
      [] op = "thumbnail_dict" -> ThumbnailDict(img_service, info, FULL_IMAGE_PARAMS)
      [] op = "to_dict"        -> ImageToDict(info, FULL_IMAGE_PARAMS)

\* A call on the Image that reads Image.info first: the first access fetches
\* and stores the ImageInfo, a failed fetch stores nothing and raises.
ImageCall(op) ==
    /\ img_fetches < MaxFetches
    /\ LET i == InfoOf(img_info, img_response)
       IN  /\ img_fetches' = IF img_info = NoInfo THEN img_fetches + 1 ELSE img_fetches
           /\ img_info' = IF i.ok THEN i.val ELSE img_info
           /\ img_out' = [op |-> op,
                          result |-> IF i.ok THEN Return(ImageResult(op, i.val)) ELSE i]
    /\ UNCHANGED <<img_service, img_response, repo_vars, fmt_vars, res_vars, search_vars, man_vars, ctx_vars, par_vars>>

\* ImageInfo.aspect_ratio of Image.info
ImageAspectRatio == ImageCall("aspect_ratio")

\* Image.thumbnail_dict()
ImageThumbnailDict == ImageCall("thumbnail_dict")

\* Image.to_dict()
ImageToDictCall == ImageCall("to_dict")

\* Parameter tuples an Image can be constructed with
S_sepia == <<"s", "e", "p", "i", "a">>
S_bmp   == <<"b", "m", "p">>
S_png   == <<"p", "n", "g">>
ParamTuples ==
    {ImageParams(rg, sz, ro, q, f) :
        rg \in {S_full, <<"x">>},
        sz \in {S_full, <<"1", "0", "0", ",", "1", "0", "0">>, <<"b", "i", "g">>},
        ro \in {<<"0">>, <<"9", "0">>, <<"u", "p">>},
        q  \in {S_default, S_sepia},
        f  \in {S_jpg, S_png, S_bmp}}

\* Image(service, image_id, iiif_params).uri on a new Image: __init__ stores
\* the parameters as given, uri reads info and appends str(iiif_params)
ImageUriCall ==
    /\ img_out.op = ""
    /\ \E params \in ParamTuples :
          \E i \in {get_metadata(img_response)} :
             img_out' = [op |-> "uri", params |-> params,
                         result |-> IF i.ok THEN Return(ImageUri(i.val, params)) ELSE i]
    /\ UNCHANGED <<img_service, img_response, img_info, img_fetches,
                   repo_vars, fmt_vars, res_vars, search_vars, man_vars, ctx_vars, par_vars>>

ImgNext == ImageAspectRatio \/ ImageThumbnailDict \/ ImageToDictCall \/ ImageUriCall

SpecImage == ImgInit /\ [][ImgNext]_vars

-----------------------------------------------------------------------------
(* Claims on Image *)

\* C7: the aspect ratio is the exact rational w/h; the thumbnail has width T and
\* height floor(T*h/w); its '@id' is the base URI and '/full/T,H/0/default.jpg'.
C7_ThumbnailSize ==
    LET w == img_response.width
        h == img_response.height
        T == img_service.thumbnail_width
        r == img_out.result
    IN  img_response.kind = "ok" =>
          /\ img_out.op = "aspect_ratio" =>
                /\ r.ok
                /\ r.val.num * h = r.val.den * w
                /\ GCD(r.val.num, r.val.den) = 1
          /\ img_out.op = "thumbnail_dict" =>
                /\ r.ok
                /\ r.val.width = T
                /\ r.val.height * w <= T * h
                /\ T * h < (r.val.height + 1) * w
                /\ r.val.id = ImageBaseUri \o <<"/">> \o S_full \o <<"/">>
                                 \o IntToStr(T) \o <<",">> \o IntToStr(r.val.height)
                                 \o <<"/", "0", "/">> \o S_default \o <<".">> \o S_jpg

C7_Witness ==
    /\ img_out.op = "thumbnail_dict"
    /\ img_response = [kind |-> "ok", width |-> 1024, height |-> 768]
    /\ img_service.thumbnail_width = 250
    /\ img_info # NoInfo
    /\ aspect_ratio(img_info) = [num |-> 4, den |-> 3]
    /\ img_out.result.ok
    /\ img_out.result.val.height = 187
    /\ img_out.result.val.width = 250
    /\ img_out.result.val.id =
          <<"u", "/", "f", "u", "l", "l", "/", "2", "5", "0", ",", "1", "8", "7",
            "/", "0", "/", "d", "e", "f", "a", "u", "l", "t", ".", "j", "p", "g">>

\* C13: a call that fetches the image metadata either returns from an ImageInfo
\* built of a successful response, or fails with ImageServiceError: whatever
\* the failure of the request, no other exception reaches the caller.
C13_ImageFailureTyping ==
    img_out.op # "" =>
        \/ img_out.result.ok /\ img_response.kind = "ok"
        \/ ~img_out.result.ok /\ img_out.result.err = "ImageServiceError"

\* The grammar of each Image-API parameter (IIIF Image API 2.0, as the
\* docstrings of ImageParams list it)
Digits(s) == s # <<>> /\ \A i \in 1..Len(s) : s[i] \in {"0", "1", "2", "3", "4", "5", "6", "7", "8", "9"}
CommaAt(s) == {i \in 1..Len(s) : s[i] = ","}
InRegionGrammar(s) ==
    \/ s = <<"f", "u", "l", "l">>
    \/ Cardinality(CommaAt(s)) = 3 /\ Digits(SelectSeq(s, LAMBDA c : c # ","))
InSizeGrammar(s) ==
    \/ s = <<"f", "u", "l", "l">>
    \/ /\ Cardinality(CommaAt(s)) = 1
       /\ Digits(SelectSeq(s, LAMBDA c : c # ","))
InRotationGrammar(s) == Digits(s) \/ (Len(s) > 1 /\ s[1] = "!" /\ Digits(Tail(s)))
InQualityGrammar(s) ==
    s \in {<<"c", "o", "l", "o", "r">>, <<"g", "r", "a", "y">>,
           <<"b", "i", "t", "o", "n", "a", "l">>, <<"d", "e", "f", "a", "u", "l", "t">>}
InFormatGrammar(s) ==
    s \in {<<"j", "p", "g">>, <<"t", "i", "f">>, <<"p", "n", "g">>, <<"g", "i", "f">>,
           <<"j", "p", "2">>, <<"p", "d", "f">>, <<"w", "e", "b", "p">>}
InGrammar(params) ==
    /\ InRegionGrammar(params.region) /\ InSizeGrammar(params.size)
    /\ InRotationGrammar(params.rotation)
    /\ InQualityGrammar(params.quality) /\ InFormatGrammar(params.format)

\* C21: an Image whose parameter tuple has a component outside its grammar is
\* rejected and yields no image URI; a tuple inside the grammar serialises as
\* '/{region}/{size}/{rotation}/{quality}.{format}' after the base URI.
C21_ImageParameterValidation ==
    (img_out.op = "uri" /\ img_response.kind = "ok") =>
        IF InGrammar(img_out.params)
        THEN /\ img_out.result.ok
             /\ img_out.result.val =
                   ImageBaseUri \o <<"/">> \o img_out.params.region
                                \o <<"/">> \o img_out.params.size
                                \o <<"/">> \o img_out.params.rotation
                                \o <<"/">> \o img_out.params.quality
                                \o <<".">> \o img_out.params.format
        ELSE ~img_out.result.ok

-----------------------------------------------------------------------------
(* source.py: SolrService.get_text_matches, TaggedText *)

\* The request's match tag '<<uuid4>>': one symbol that no text contains.
MATCH_TAG == "<<uuid4>>"

\* s.split(sep) for a one-symbol separator: the pieces between the separators
RECURSIVE Split(_, _)
Split(s, sep) ==
    LET at == Find(s, sep, 1)
    IN  IF at = 0 THEN <<s>>
        ELSE <<SubSeq(s, 1, at - 1)>> \o Split(SubSeq(s, at + 1, Len(s)), sep)

\* s.split(sep, 1): the parts before and after the first separator, if any
SplitOnce(s, sep) ==
    LET at == Find(s, sep, 1)
    IN  IF at = 0 THEN <<s>>
        ELSE <<SubSeq(s, 1, at - 1), SubSeq(s, at + 1, Len(s))>>

\* urllib.parse.parse_qsl(qs) with its defaults: the name/value pairs of the
\* '&'-separated fields; a field without '=' or with an empty value is dropped.
\* (The inputs hold neither '%' nor '+', so there is nothing to unquote.)
IsPair(field) == Len(SplitOnce(field, "=")) = 2 /\ SplitOnce(field, "=")[2] # <<>>
parse_qsl(qs) ==
    LET fields == SelectSeq(Split(qs, "&"), IsPair)
    IN  [i \in 1..Len(fields) |-> SplitOnce(fields[i], "=")]

\* dict(pairs): the last value given for each name
Dict(pairs) ==
    [k \in {pairs[i][1] : i \in 1..Len(pairs)} |->
        pairs[CHOOSE i \in 1..Len(pairs) :
                 pairs[i][1] = k /\ \A j \in (i + 1)..Len(pairs) : pairs[j][1] # k][2]]

\* TaggedText.parse(dps_string)
TaggedTextParse(dps_string) ==
    LET parts == SplitOnce(dps_string, "|")
    IN  IF Len(parts) # 2 THEN Raise("ValueError")
        ELSE Return([text |-> parts[1], params |-> Dict(parse_qsl(parts[2]))])

\* int(s) for a string: its digits as a decimal number, ValueError otherwise
IsDigit(c) == c \in {"0", "1", "2", "3", "4", "5", "6", "7", "8", "9"}
DigitValue(c) == CHOOSE d \in 0..9 : Digit(d) = c
RECURSIVE DigitsToInt(_, _)
DigitsToInt(s, acc) ==
    IF s = <<>> THEN acc ELSE DigitsToInt(Tail(s), 10 * acc + DigitValue(Head(s)))
StrToInt(s) ==
    IF s # <<>> /\ \A i \in 1..Len(s) : IsDigit(s[i])
    THEN Return(DigitsToInt(s, 0)) ELSE Raise("ValueError")

\* The segments at even (0-based) positions of a split fragment
EvenSegments(segments) ==
    [i \in 1..((Len(segments) + 1) \div 2) |-> segments[2 * i - 1]]

\* The segments at odd (0-based) positions of a split fragment
OddSegments(segments) ==
    [i \in 1..(Len(segments) \div 2) |-> segments[2 * i]]

\* hits.extend(TaggedText.parse(x) ...) over all fragments: the parsed hits in
\* order, or the first exception
RECURSIVE ParseAll(_)
ParseAll(xs) ==
    IF xs = <<>> THEN Return(<<>>)
    ELSE LET h == TaggedTextParse(Head(xs))
         IN  IF ~h.ok THEN h
             ELSE LET rest == ParseAll(Tail(xs))
                  IN  IF rest.ok THEN Return(<<h.val>> \o rest.val) ELSE rest

RECURSIVE HitSegments(_)
HitSegments(fragments) ==
    IF fragments = <<>> THEN <<>>
    ELSE OddSegments(Split(Head(fragments), MATCH_TAG)) \o HitSegments(Tail(fragments))

\* [h for h in hits if int(h.params['n']) == index]: the first hit without an
\* 'n' raises KeyError, the first whose 'n' is no number raises ValueError
NoIndex == -1
RECURSIVE FilterByIndex(_, _)
FilterByIndex(hits, idx) ==
    IF hits = <<>> THEN Return(<<>>)
    ELSE LET h == Head(hits)
         IN  IF <<"n">> \notin DOMAIN h.params THEN Raise("KeyError")
             ELSE LET n == StrToInt(h.params[<<"n">>])
                  IN  IF ~n.ok THEN n
                      ELSE LET rest == FilterByIndex(Tail(hits), idx)
                           IN  IF ~rest.ok THEN rest
                               ELSE Return((IF n.val = idx THEN <<h>> ELSE <<>>) \o rest.val)

\* get_text_matches that tests the truth of index in place of 'is not None'
get_text_matches_truthy(response, idx) ==
    IF response.kind = "SolrError" THEN Raise("SolrLookupError")
    ELSE IF response.kind = "no_document" THEN Raise("KeyError")
    ELSE LET hits == ParseAll(HitSegments(response.fragments))
         IN  IF ~hits.ok THEN hits
             ELSE IF idx # NoIndex /\ idx # 0 THEN FilterByIndex(hits.val, idx)
             ELSE hits

\* SolrService.get_text_matches(resource_uri, text_query, index), given what
\* Solr answers: a SolrError, a response whose highlighting has no entry for
\* the resource, or the highlighted fragments of the text field
get_text_matches(response, idx) ==
    IF response.kind = "SolrError" THEN Raise("SolrLookupError")
    ELSE IF response.kind = "no_document" THEN Raise("KeyError")
    ELSE LET hits == ParseAll(HitSegments(response.fragments))
         IN  IF ~hits.ok THEN hits
             ELSE IF idx # NoIndex THEN FilterByIndex(hits.val, idx)
             ELSE hits

\* Segments of the highlighted text: hits and the text between them
SEG_foo  == <<"f", "o", "o", "|", "n", "=", "1", "&", "x", "y", "w", "h", "=", "1", ",", "2", ",", "3", ",", "4">>
SEG_bar  == <<"b", "a", "r", "|", "n", "=", "2", "&", "x", "y", "w", "h", "=", "5", ",", "6", ",", "7", ",", "8">>
SEG_n01  == <<"b", "a", "z", "|", "n", "=", "0", "1", "&", "b", "&", "x", "y", "w", "h", "=">>
SEG_zero == <<"q", "u", "x", "|", "x", "y", "w", "h", "=", "9", "&", "n", "=", "0">>
SEG_non  == <<"n", "o", "p", "|", "x", "y", "w", "h", "=", "1">>
SEG_bad  == <<"o", "o", "p", "s">>
SEG_text == <<"t">>
HitPool  == {SEG_foo, SEG_bar, SEG_n01, SEG_zero, SEG_non, SEG_bad}
TextPool == {SEG_text, SEG_bar}

\* s1 + tag + s2 + ... for a sequence of segments
RECURSIVE JoinSegments(_)
JoinSegments(segs) ==
    IF Len(segs) = 1 THEN segs[1]
    ELSE segs[1] \o <<MATCH_TAG>> \o JoinSegments(Tail(segs))

\* Fragments of exactly k segments: text and hits alternate, text first
FragmentsOf(k) ==
    {JoinSegments(f) :
        f \in {g \in [1..k -> HitPool \cup TextPool] :
                  \A i \in 1..k : g[i] \in (IF i % 2 = 0 THEN HitPool ELSE TextPool)}}

\* Responses whose fragments hold at most n segments in all
RECURSIVE ResponsesUpTo(_)
ResponsesUpTo(n) ==
    {<<>>} \cup UNION {{<<f>> \o r : f \in FragmentsOf(k), r \in ResponsesUpTo(n - k)} : k \in 1..n}

SearchInit ==
    /\ solr_response \in
          [kind : {"ok"}, fragments : ResponsesUpTo(MaxSegments)]
          \cup [kind : {"SolrError", "no_document"}, fragments : {<<>>}]
    /\ search_out = [op |-> "", index |-> NoIndex, result |-> <<>>]
    /\ RepoIdle /\ FmtIdle /\ ResIdle /\ ImgIdle /\ ManIdle /\ CtxIdle /\ ParIdle

\* get_text_matches(resource_uri, text_query) or (..., index)
GetTextMatches ==
    /\ search_out.op = ""
    /\ \E idx \in {NoIndex} \cup (0..MaxPageIndex) :
          search_out' = [op |-> "get_text_matches", index |-> idx,
                         result |-> get_text_matches(solr_response, idx)]
    /\ UNCHANGED <<solr_response, repo_vars, fmt_vars, res_vars, img_vars, man_vars, ctx_vars, par_vars>>

\* TaggedText.parse of the first hit segment of the response
ParseTaggedText ==
    /\ search_out.op = ""
    /\ solr_response.kind = "ok"
    /\ HitSegments(solr_response.fragments) # <<>>
    /\ search_out' = [op |-> "parse", index |-> NoIndex,
                      result |-> TaggedTextParse(HitSegments(solr_response.fragments)[1])]
    /\ UNCHANGED <<solr_response, repo_vars, fmt_vars, res_vars, img_vars, man_vars, ctx_vars, par_vars>>

SearchNext == GetTextMatches \/ ParseTaggedText

SpecSearch == SearchInit /\ [][SearchNext]_vars

-----------------------------------------------------------------------------
(* Claims on SolrService *)

\* C9: with a page index k, get_text_matches returns exactly the hits of the
\* call without an index whose parameter n is k as an integer, in their order;
\* without a page index it returns all the hits.  (Every hit is text|params
\* and carries a numeric n.)
C9_SearchHitScoping ==
    LET all == get_text_matches(solr_response, NoIndex)
        out == search_out.result
        k   == search_out.index
        OnPage(h) == StrToInt(h.params[<<"n">>]).val = k
        Numbered(h) == <<"n">> \in DOMAIN h.params /\ StrToInt(h.params[<<"n">>]).ok
    IN  (/\ search_out.op = "get_text_matches"
         /\ all.ok
         /\ \A i \in 1..Len(all.val) : Numbered(all.val[i])) =>
           IF k = NoIndex
           THEN out.ok /\ Len(out.val) = Len(HitSegments(solr_response.fragments))
                       /\ \A i \in 1..Len(out.val) :
                             out.val[i] = TaggedTextParse(HitSegments(solr_response.fragments)[i]).val
           ELSE out.ok /\ out.val = SelectSeq(all.val, OnPage)

C9_Witness ==
    /\ search_out.op = "get_text_matches"
    /\ search_out.index = 1
    /\ solr_response.fragments =
          <<SEG_text \o <<MATCH_TAG>> \o SEG_foo, SEG_text \o <<MATCH_TAG>> \o SEG_bar>>
    /\ search_out.result.ok
    /\ Len(search_out.result.val) = 1
    /\ search_out.result.val[1].text = <<"f", "o", "o">>
    /\ search_out.result.val[1].params[<<"n">>] = <<"1">>
    /\ search_out.result.val[1].params[<<"x", "y", "w", "h">>] = <<"1", ",", "2", ",", "3", ",", "4">>

\* The places of a separator in a string, and the piece at 0-based position j
\* among the pieces the separators delimit
SepAt(s, sep) == {i \in 1..Len(s) : s[i] = sep}
SepBound(s, sep, j) ==
    IF j = 0 THEN 0
    ELSE IF j > Cardinality(SepAt(s, sep)) THEN Len(s) + 1
    ELSE CHOOSE i \in SepAt(s, sep) : Cardinality({t \in SepAt(s, sep) : t < i}) = j - 1
Piece(s, sep, j) == SubSeq(s, SepBound(s, sep, j) + 1, SepBound(s, sep, j + 1) - 1)
PieceCount(s, sep) == Cardinality(SepAt(s, sep)) + 1

\* The hits a fragment delimits: its pieces at odd 0-based positions
NHits(fragment) == PieceCount(fragment, MATCH_TAG) \div 2
HitOf(fragment, i) == Piece(fragment, MATCH_TAG, 2 * i - 1)
RECURSIVE HitsBefore(_, _)
HitsBefore(fragments, m) ==
    IF m = 1 THEN 0 ELSE HitsBefore(fragments, m - 1) + NHits(fragments[m - 1])

\* h is segment s read as text|queryString: the text is what precedes the
\* first '|'; each '&'-field name=value with a value gives params[name] = value,
\* the last such field of a name giving its value
FirstAt(s, c) == CHOOSE i \in 1..Len(s) : s[i] = c /\ \A j \in 1..(i - 1) : s[j] # c
HasValue(field) == SepAt(field, "=") # {} /\ FirstAt(field, "=") < Len(field)
KeyOf(field) == SubSeq(field, 1, FirstAt(field, "=") - 1)
ValueOf(field) == SubSeq(field, FirstAt(field, "=") + 1, Len(field))
IsParseOf(h, s) ==
    LET qs == SubSeq(s, FirstAt(s, "|") + 1, Len(s))
        valued == {j \in 0..(PieceCount(qs, "&") - 1) : HasValue(Piece(qs, "&", j))}
    IN  /\ h.text = SubSeq(s, 1, FirstAt(s, "|") - 1)
        /\ DOMAIN h.params = {KeyOf(Piece(qs, "&", j)) : j \in valued}
        /\ \A j \in valued :
              (\A l \in valued : l > j => KeyOf(Piece(qs, "&", l)) # KeyOf(Piece(qs, "&", j)))
                  => h.params[KeyOf(Piece(qs, "&", j))] = ValueOf(Piece(qs, "&", j))

\* C18: without a page index, the hits of a response are exactly its fragments'
\* pieces at odd 0-based positions, fragment by fragment and in order within a
\* fragment, each read as text|queryString; pieces at even positions give no
\* hit.  (A piece at an odd position that holds no '|' makes the call fail
\* with ValueError.)  'foo|n=1&xywh=1,2,3,4' parses to text 'foo' and params
\* {n: '1', xywh: '1,2,3,4'}.
C18_HitExtraction ==
    LET frags == solr_response.fragments
        out   == search_out.result
        Places == {<<m, i>> \in (1..Len(frags)) \X (1..MaxSegments) : i <= NHits(frags[m])}
    IN  /\ (search_out.op = "get_text_matches" /\ search_out.index = NoIndex
                /\ solr_response.kind = "ok") =>
              IF \A p \in Places : SepAt(HitOf(frags[p[1]], p[2]), "|") # {}
              THEN /\ out.ok
                   /\ Len(out.val) = HitsBefore(frags, Len(frags) + 1)
                   /\ \A p \in Places :
                         IsParseOf(out.val[HitsBefore(frags, p[1]) + p[2]],
                                   HitOf(frags[p[1]], p[2]))
              ELSE ~out.ok /\ out.err = "ValueError"
        /\ (search_out.op = "parse" /\ HitOf(frags[1], 1) = SEG_foo) =>
              /\ out.ok
              /\ out.val = [text |-> <<"f", "o", "o">>,
                            params |-> (<<"n">> :> <<"1">>) @@
                                       (<<"x", "y", "w", "h">> :> <<"1", ",", "2", ",", "3", ",", "4">>)]

C18_Witness ==
    /\ search_out.op = "get_text_matches"
    /\ search_out.index = NoIndex
    /\ solr_response.fragments =
          <<SEG_bar \o <<MATCH_TAG>> \o SEG_foo, SEG_text \o <<MATCH_TAG>> \o SEG_n01>>
    /\ search_out.result.ok
    /\ Len(search_out.result.val) = 2
    /\ search_out.result.val[1].text = <<"f", "o", "o">>
    /\ search_out.result.val[2].text = <<"b", "a", "z">>
    /\ search_out.result.val[2].params = (<<"n">> :> <<"0", "1">>)

-----------------------------------------------------------------------------
(* iiif2.py: PresentationContext, Manifest, Sequence, Canvas, Annotation *)

\* The document is res_results under the query mapping res_keys; the image
\* service is img_service; man_images is what the image server answers.

PRESENTATION_API_CONTEXT == "http://iiif.io/api/presentation/2/context.json"
NoQuery == "None"
NoLogo == "None"
S_normal == <<"n", "o", "r", "m", "a", "l">>
S_image  == <<"-", "i", "m", "a", "g", "e">>
S_search == <<"-", "s", "e", "a", "r", "c", "h", "?", "q", "=">>

\* Outcome of a step on the manifest graph, with the cached properties after it.
Ok(v, c)   == [ok |-> TRUE, err |-> "", val |-> v, cache |-> c]
Fail(e, c) == [ok |-> FALSE, err |-> e, val |-> <<>>, cache |-> c]

\* Resource.title: the title values, in order.
title(results) == Query(results, K_label)

\* Resource.get_page_title(page_uri): the label of that page.
get_page_title(results, page_uri) == <<"label of ", page_uri>>

\* PresentationContext.get_resource with the except clauses in the other
\* order: SolrLookupError is tested first, and catches its subclass too
get_resource_lookup_error_first(lookup) ==
    CASE lookup = "IdentifierError"      -> Raise("IdentifierProblem")
      [] lookup = "SolrDocumentNotFound" -> Raise("ServiceProblem")
      [] lookup = "SolrLookupError"      -> Raise("ServiceProblem")
      [] OTHER -> Return("resource")

\* PresentationContext.get_resource(manifest_id): the Resource, or the problem
\* the backend's failure is translated to.
get_resource(lookup) ==
    CASE lookup = "IdentifierError"      -> Raise("IdentifierProblem")
      [] lookup = "SolrDocumentNotFound" -> Raise("ManifestNotFound")
      [] lookup = "SolrLookupError"      -> Raise("ServiceProblem")
      [] OTHER -> Return("resource")

\* A new Manifest: nothing cached yet.
NewCache ==
    [resource |-> FALSE, lookups |-> 0,
     sequences |-> FALSE, sequence_builds |-> 0,
     canvases |-> FALSE, canvas_builds |-> 0,
     annotations |-> {}, infos |-> {}, fetches |-> 0,
     searches |-> <<>>, hits |-> {}, hit_annotations |-> {}]

\* Manifest.uri and the URIs of the nodes below it
ManifestBase == <<"base", "/">> \o man_id
ManifestUri == ManifestBase \o <<"/manifest">>
SequenceUri(name) == ManifestBase \o <<"/sequence/">> \o name
CanvasUri(name) == ManifestBase \o <<"/canvas/">> \o name
AnnotationUri(name) == ManifestBase \o <<"/annotation/">> \o name
SearchHitsListUri(name, query) == ManifestBase \o <<"/list/">> \o name \o S_search \o <<query>>

\* The one element of a singleton: The({e(x) : x \in {v}}) is e with x bound to
\* the value of v, worked out once.
The(S) == CHOOSE x \in S : TRUE

\* Manifest.resource as a plain property: looked up at every access
ManifestResourceUncached(c) ==
    The({IF r.ok
         THEN Ok(r.val, [c EXCEPT !.lookups = @ + 1, !.resource = TRUE])
         ELSE Fail(r.err, [c EXCEPT !.lookups = @ + 1])
         : r \in {get_resource(man_lookup)}})

\* Manifest.resource (cached_property)
ManifestResource(c) ==
    IF c.resource THEN Ok("resource", c)
    ELSE The({IF r.ok
              THEN Ok(r.val, [c EXCEPT !.lookups = @ + 1, !.resource = TRUE])
              ELSE Fail(r.err, [c EXCEPT !.lookups = @ + 1])
              : r \in {get_resource(man_lookup)}})

\* Manifest.sequences (cached_property): the names of the sequences.
\* Sequence.__init__ reads manifest.resource.
ManifestSequences(c) ==
    IF c.sequences THEN Ok(<<S_normal>>, c)
    ELSE The({IF r.ok
              THEN Ok(<<S_normal>>, [r.cache EXCEPT !.sequences = TRUE,
                                                    !.sequence_builds = @ + 1])
              ELSE r
              : r \in {ManifestResource(c)}})

\* The canvas at (1-based) position pos of the page list
NPages == Len(page_uris(res_results))
CanvasNameFromOne(pos) == IntToStr(pos)
CanvasName(pos) == IntToStr(pos - 1)
CanvasPage(pos) == page_uris(res_results)[pos]
CanvasImageId(pos) == get_page_image_id(res_results, CanvasPage(pos))
AnnotationName(pos) == CanvasName(pos) \o S_image

\* Sequence.canvases (cached_property): the number of canvases built.
\* Canvas.__init__ looks the image id of its page up.
SequenceCanvases(c) ==
    IF c.canvases THEN Ok(NPages, c)
    ELSE IF \E pos \in 1..NPages : ~CanvasImageId(pos).ok
    THEN LET bad == CHOOSE pos \in 1..NPages :
                       /\ ~CanvasImageId(pos).ok
                       /\ \A q \in 1..(pos - 1) : CanvasImageId(q).ok
         IN  Fail(CanvasImageId(bad).err, c)
    ELSE Ok(NPages, [c EXCEPT !.canvases = TRUE, !.canvas_builds = @ + 1])

\* Canvas.image_annotation (cached_property)
ImageAnnotation(pos, c) == [c EXCEPT !.annotations = @ \cup {pos}]

\* Image.info of the image of the canvas at pos (cached_property)
ImageInfoAt(pos) ==
    LET r == get_metadata(man_images[CanvasImageId(pos).val])
    IN  IF r.ok THEN Return([r.val EXCEPT !.uri = <<"img", "/", CanvasImageId(pos).val>>]) ELSE r
CanvasInfo(pos, c) ==
    The({IF pos \in c.infos THEN Ok(r.val, c)
         ELSE IF r.ok
         THEN Ok(r.val, [c EXCEPT !.fetches = @ + 1, !.infos = @ \cup {pos}])
         ELSE Fail(r.err, [c EXCEPT !.fetches = @ + 1])
         : r \in {ImageInfoAt(pos)}})

\* with_context: dict.update({'@context': ...})
WithContext(d, with_context) ==
    IF with_context THEN d @@ [context |-> PRESENTATION_API_CONTEXT] ELSE d

\* Annotation.to_dict; the resource's to_dict reads Image.info
AnnotationToDict(pos, with_context, c) ==
    The({IF ~i.ok THEN i
         ELSE Ok(WithContext([id |-> AnnotationUri(AnnotationName(pos)),
                              type |-> "oa:Annotation",
                              motivation |-> "sc:painting",
                              resource |-> ImageToDict(i.val, FULL_IMAGE_PARAMS),
                              on |-> CanvasUri(CanvasName(pos))], with_context),
                 i.cache)
         : i \in {CanvasInfo(pos, c)}})

\* A Canvas.to_dict that reads the hits of the list it refers to
CanvasToDictSearching(pos, with_context, c) ==
    The({IF ~a.ok THEN a
         ELSE Ok(WithContext(
                     [id |-> CanvasUri(CanvasName(pos)),
                      type |-> "sc:Canvas",
                      label |-> get_page_title(res_results, CanvasPage(pos)),
                      images |-> <<a.val>>,
                      thumbnail |-> ThumbnailDict(img_service, CanvasInfo(pos, a.cache).val,
                                                  FULL_IMAGE_PARAMS),
                      height |-> CanvasInfo(pos, a.cache).val.height,
                      width |-> CanvasInfo(pos, a.cache).val.width,
                      otherContent |->
                          IF man_text_query # NoQuery
                          THEN <<[id |-> SearchHitsListUri(CanvasName(pos), man_text_query),
                                  type |-> "sc:AnnotationList"]>>
                          ELSE <<>>], with_context),
                 IF man_text_query # NoQuery
                 THEN [CanvasInfo(pos, a.cache).cache EXCEPT !.searches = Append(@, pos - 1)]
                 ELSE CanvasInfo(pos, a.cache).cache)
         : a \in {AnnotationToDict(pos, FALSE, ImageAnnotation(pos, c))}})

\* Canvas.to_dict; a is the outcome of self.image_annotation.to_dict(), after
\* which Image.info is cached
CanvasToDict(pos, with_context, c) ==
    The({IF ~a.ok THEN a
         ELSE Ok(WithContext(
                     [id |-> CanvasUri(CanvasName(pos)),
                      type |-> "sc:Canvas",
                      label |-> get_page_title(res_results, CanvasPage(pos)),
                      images |-> <<a.val>>,
                      thumbnail |-> ThumbnailDict(img_service, CanvasInfo(pos, a.cache).val,
                                                  FULL_IMAGE_PARAMS),
                      height |-> CanvasInfo(pos, a.cache).val.height,
                      width |-> CanvasInfo(pos, a.cache).val.width,
                      otherContent |->
                          IF man_text_query # NoQuery
                          THEN <<[id |-> SearchHitsListUri(CanvasName(pos), man_text_query),
                                  type |-> "sc:AnnotationList"]>>
                          ELSE <<>>], with_context),
                 CanvasInfo(pos, a.cache).cache)
         : a \in {AnnotationToDict(pos, FALSE, ImageAnnotation(pos, c))}})

\* [canvas.to_dict() for canvas in self.canvases], from position pos on
RECURSIVE CanvasDictsFrom(_, _, _)
CanvasDictsFrom(pos, n, c) ==
    IF pos > n THEN Ok(<<>>, c)
    ELSE The({IF ~d.ok THEN d
              ELSE The({IF ~rest.ok THEN rest ELSE Ok(<<d.val>> \o rest.val, rest.cache)
                        : rest \in {CanvasDictsFrom(pos + 1, n, d.cache)}})
              : d \in {CanvasToDict(pos, FALSE, c)}})

\* Sequence.to_dict
SequenceToDict(name, with_context, c) ==
    The({IF ~n.ok THEN n
         ELSE The({IF ~ds.ok THEN ds
                   ELSE Ok(WithContext(
                               IF n.val > 0
                               THEN [id |-> SequenceUri(name),
                                     type |-> "sc:Sequence",
                                     canvases |-> ds.val,
                                     startCanvas |-> CanvasUri(CanvasName(1))]
                               ELSE [id |-> SequenceUri(name),
                                     type |-> "sc:Sequence",
                                     canvases |-> ds.val], with_context),
                           ds.cache)
                   : ds \in {CanvasDictsFrom(1, n.val, n.cache)}})
         : n \in {SequenceCanvases(c)}})

\* self.sequences[0].canvases[0].image_annotation.thumbnail_dict()
ManifestThumbnail(c) ==
    The({IF ~ss.ok THEN ss
         ELSE The({IF ~n.ok THEN n
                   ELSE IF n.val = 0 THEN Fail("IndexError", n.cache)
                   ELSE The({IF ~i.ok THEN i
                             ELSE Ok(ThumbnailDict(img_service, i.val, FULL_IMAGE_PARAMS),
                                     i.cache)
                             : i \in {CanvasInfo(1, ImageAnnotation(1, n.cache))}})
                   : n \in {SequenceCanvases(ss.cache)}})
         : ss \in {ManifestSequences(c)}})

\* The thumbnail step of Manifest.to_dict without the except clause
ThumbnailStepUncaught(manifest_info, c) ==
    The({IF t.ok THEN Ok(manifest_info @@ [thumbnail |-> t.val], t.cache) ELSE t
         : t \in {ManifestThumbnail(c)}})

\* The thumbnail step of Manifest.to_dict: try ... except IndexError: pass
ThumbnailStep(manifest_info, c) ==
    The({IF t.ok THEN Ok(manifest_info @@ [thumbnail |-> t.val], t.cache)
         ELSE IF t.err = "IndexError" THEN Ok(manifest_info, t.cache)
         ELSE t
         : t \in {ManifestThumbnail(c)}})

\* [seq.to_dict() for seq in self.sequences]
SequenceDicts(c) ==
    The({IF ~ss.ok THEN ss
         ELSE The({IF ~sd.ok THEN sd ELSE Ok(<<sd.val>>, sd.cache)
                   : sd \in {SequenceToDict(ss.val[1], FALSE, ss.cache)}})
         : ss \in {ManifestSequences(c)}})

\* The dict literal of Manifest.to_dict, its values worked out in order
ManifestInfo(c) ==
    LET t  == Subscript(title(res_results), 0)
        dt == date(res_results)
        lc == license(res_results)
    IN  The({IF ~r.ok THEN r
             ELSE IF ~t.ok THEN Fail(t.err, r.cache)
             ELSE The({IF ~sds.ok THEN sds
                       ELSE IF ~dt.ok THEN Fail(dt.err, sds.cache)
                       ELSE IF ~lc.ok THEN Fail(lc.err, sds.cache)
                       ELSE Ok([id |-> ManifestUri,
                                type |-> "sc:Manifest",
                                label |-> t.val,
                                metadata |-> metadata(res_keys, res_results),
                                sequences |-> sds.val,
                                navDate |-> dt.val,
                                license |-> lc.val], sds.cache)
                       : sds \in {SequenceDicts(r.cache)}})
             : r \in {ManifestResource(c)}})

\* Manifest.to_dict
ManifestToDict(with_context, c) ==
    The({IF ~mi.ok THEN mi
         ELSE The({IF ~th.ok THEN th
                   ELSE Ok(WithContext(IF man_logo # NoLogo
                                       THEN th.val @@ [logo |-> [id |-> man_logo]]
                                       ELSE th.val, with_context),
                           th.cache)
                   : th \in {ThumbnailStep(mi.val, mi.cache)}})
         : mi \in {ManifestInfo(c)}})

\* Manifest.find_sequence(name)
find_sequence(name, c) ==
    The({IF ~ss.ok THEN ss
         ELSE IF \E k \in 1..Len(ss.val) : ss.val[k] = name THEN Ok(name, ss.cache)
         ELSE Fail("KeyError", ss.cache)
         : ss \in {ManifestSequences(c)}})

\* for sequence in self.sequences: for canvas in sequence.canvases
AllCanvases(c) ==
    The({IF ~ss.ok THEN ss ELSE SequenceCanvases(ss.cache) : ss \in {ManifestSequences(c)}})

\* Manifest.find_canvas(name): the position of the canvas
find_canvas(name, c) ==
    The({IF ~n.ok THEN n
         ELSE IF \E pos \in 1..n.val : CanvasName(pos) = name
         THEN Ok(CHOOSE pos \in 1..n.val : CanvasName(pos) = name, n.cache)
         ELSE Fail("KeyError", n.cache)
         : n \in {AllCanvases(c)}})

\* Manifest.find_annotation(name): the position of the annotation's canvas;
\* the search builds the image annotation of every canvas it looks at.
find_annotation(name, c) ==
    The({IF ~n.ok THEN n
         ELSE IF \E pos \in 1..n.val : AnnotationName(pos) = name
         THEN LET at == CHOOSE pos \in 1..n.val : AnnotationName(pos) = name
              IN  Ok(at, [n.cache EXCEPT !.annotations = @ \cup (1..at)])
         ELSE Fail("KeyError", [n.cache EXCEPT !.annotations = @ \cup (1..n.val)])
         : n \in {AllCanvases(c)}})

\* Canvas.search_text(query): reads the resource URI, then asks the search
\* service for the matches on the canvas's page, int(self.name)
search_text(pos, c) ==
    IF ~First(Query(res_results, K_uri)).ok
    THEN Fail(First(Query(res_results, K_uri)).err, c)
    ELSE The({IF r.ok THEN Ok(r.val, [c EXCEPT !.searches = Append(@, pos - 1)])
              ELSE Fail(r.err, [c EXCEPT !.searches = Append(@, pos - 1)])
              : r \in {get_text_matches(solr_response, pos - 1)}})

\* SearchHitsList.search_hits (cached_property) of the list of the canvas at pos
search_hits(pos, c) ==
    IF pos \in c.hits THEN Ok(get_text_matches(solr_response, pos - 1).val, c)
    ELSE The({IF r.ok THEN Ok(r.val, [r.cache EXCEPT !.hits = @ \cup {pos}]) ELSE r
              : r \in {search_text(pos, c)}})

\* hit_annotation(uri, canvas_uri, hit); hit.params["xywh"] may be missing
hit_annotation(i, canvas_uri, hit) ==
    IF <<"x", "y", "w", "h">> \notin DOMAIN hit.params THEN Raise("KeyError")
    ELSE Return([id |-> <<"#result-">> \o (IF i < 10 THEN <<"0", "0">> ELSE <<"0">>) \o IntToStr(i),
                 type |-> <<"oa:Annotation", "umd:searchResult">>,
                 motivation |-> "oa:highlighting",
                 on |-> [type |-> "oa:SpecificResource",
                         full |-> canvas_uri,
                         selector |-> [type |-> "oa:FragmentSelector",
                                       value |-> <<"xywh=">> \o hit.params[<<"x", "y", "w", "h">>]]]])
HitAnnotations(pos, hits) ==
    IF \E i \in 1..Len(hits) : ~hit_annotation(i, CanvasUri(CanvasName(pos)), hits[i]).ok
    THEN Raise("KeyError")
    ELSE Return([i \in 1..Len(hits) |->
                    hit_annotation(i, CanvasUri(CanvasName(pos)), hits[i]).val])

\* SearchHitsList.annotations (cached_property)
annotations(pos, c) ==
    The({IF ~h.ok THEN h
         ELSE IF ~HitAnnotations(pos, h.val).ok
         THEN Fail(HitAnnotations(pos, h.val).err, h.cache)
         ELSE Ok(HitAnnotations(pos, h.val).val,
                 [h.cache EXCEPT !.hit_annotations = @ \cup {pos}])
         : h \in {IF pos \in c.hit_annotations
                  THEN Ok(get_text_matches(solr_response, pos - 1).val, c)
                  ELSE search_hits(pos, c)}})

\* SearchHitsList.to_dict
SearchHitsListToDict(pos, query, with_context, c) ==
    The({IF ~a.ok THEN a
         ELSE Ok(WithContext([id |-> SearchHitsListUri(CanvasName(pos), query),
                              type |-> "sc:AnnotationList",
                              resources |-> a.val], with_context), a.cache)
         : a \in {annotations(pos, c)}})

-----------------------------------------------------------------------------
(* errors.py: problem details; web.py: request handlers *)

\* A description template: literal text and {param} fields
Lit(t)   == [lit |-> t, param |-> ""]
Field(p) == [lit |-> "", param |-> p]

\* code, name and description of the ProblemDetailError subclasses
ProblemClass(kind) ==
    CASE kind = "IdentifierProblem" ->
            [code |-> 400, name |-> "Invalid identifier",
             description |-> <<Lit("The identifier "), Field("iiif_id"),
                               Lit(" is not recognized as a valid IIIF identifier")>>]
      [] kind = "ManifestNotFound" ->
            [code |-> 404, name |-> "Manifest not found",
             description |-> <<Lit("Manifest with identifier \""), Field("id"),
                               Lit("\" not found")>>]
      [] kind = "SequenceNotFound" ->
            [code |-> 404, name |-> "Sequence not found",
             description |-> <<Lit("Sequence with name \""), Field("sequence_name"),
                               Lit("\" not found in manifest \""), Field("manifest_id"),
                               Lit("\"")>>]
      [] kind = "CanvasNotFound" ->
            [code |-> 404, name |-> "Canvas not found",
             description |-> <<Lit("Canvas with name \""), Field("canvas_name"),
                               Lit("\" not found in manifest \""), Field("manifest_id"),
                               Lit("\"")>>]
      [] kind = "AnnotationNotFound" ->
            [code |-> 404, name |-> "Annotation not found",
             description |-> <<Lit("Annotation with name \""), Field("annotation_name"),
                               Lit("\" not found in manifest \""), Field("manifest_id"),
                               Lit("\"")>>]
      [] kind = "ServiceProblem" ->
            [code |-> 500, name |-> "Backend service error",
             description |-> <<Lit("Backend service error")>>]
ProblemKinds == {"IdentifierProblem", "ManifestNotFound", "SequenceNotFound",
                 "CanvasNotFound", "AnnotationNotFound", "ServiceProblem"}

\* description.format(**params); a field without a parameter is a KeyError
RECURSIVE Format(_, _)
Format(template, params) ==
    IF template = <<>> THEN Return(<<>>)
    ELSE LET h    == Head(template)
             rest == Format(Tail(template), params)
         IN  IF h.param # "" /\ h.param \notin DOMAIN params THEN Raise("KeyError")
             ELSE IF ~rest.ok THEN rest
             ELSE Return((IF h.param = "" THEN <<h.lit>> ELSE params[h.param]) \o rest.val)

\* ProblemDetailError.as_problem_detail
as_problem_detail(kind, params) ==
    LET details == Format(ProblemClass(kind).description, params)
    IN  IF ~details.ok THEN details
        ELSE Return([status |-> ProblemClass(kind).code,
                     title |-> ProblemClass(kind).name,
                     details |-> details.val])

\* The response to a request: the JSON of a handler that returned, the
\* problem detail of a ProblemDetailError, the server's own error page for
\* any other exception.
Success(body) == [status |-> 200, kind |-> "", params |-> <<>>, body |-> body]
Unhandled(e)  == [status |-> 500, kind |-> e, params |-> <<>>, body |-> <<>>]
problem_detail_response(kind, params) ==
    LET d == as_problem_detail(kind, params)
    IN  IF d.ok THEN [status |-> d.val.status, kind |-> kind, params |-> params, body |-> d.val]
        ELSE Unhandled(d.err)

\* The parameters the problems of a failed lookup are raised with
LookupParams(kind) ==
    CASE kind = "IdentifierProblem" -> [iiif_id |-> man_id]
      [] kind = "ManifestNotFound"  -> [id |-> man_id]
      [] OTHER -> <<>>

\* get_manifest_object(manifest_id): the resource is fetched first, and the
\* Manifest is constructed with it.
get_manifest_object ==
    LET r == get_resource(man_lookup)
        c == [NewCache EXCEPT !.lookups = 1]
    IN  IF r.ok THEN Ok("manifest", [c EXCEPT !.resource = TRUE]) ELSE Fail(r.err, c)

\* The handlers' try/except KeyError, and the registered error handler
Respond(outcome, not_found, param, name) ==
    The({[cache |-> o.cache,
          response |->
             IF o.ok THEN Success(o.val)
             ELSE IF o.err = "KeyError"
             THEN problem_detail_response(not_found, (param :> name) @@ [manifest_id |-> man_id])
             ELSE IF o.err \in ProblemKinds
             THEN problem_detail_response(o.err, LookupParams(o.err))
             ELSE Unhandled(o.err)]
         : o \in {outcome}})

\* get_manifest_object(id).find_sequence(name).to_dict(with_context=True)
SequenceRequest(name) ==
    IF ~get_manifest_object.ok THEN get_manifest_object
    ELSE The({IF ~f.ok THEN f ELSE SequenceToDict(f.val, TRUE, f.cache)
              : f \in {find_sequence(name, get_manifest_object.cache)}})
CanvasRequest(name) ==
    IF ~get_manifest_object.ok THEN get_manifest_object
    ELSE The({IF ~f.ok THEN f ELSE CanvasToDict(f.val, TRUE, f.cache)
              : f \in {find_canvas(name, get_manifest_object.cache)}})
AnnotationRequest(name) ==
    IF ~get_manifest_object.ok THEN get_manifest_object
    ELSE The({IF ~f.ok THEN f ELSE AnnotationToDict(f.val, TRUE, f.cache)
              : f \in {find_annotation(name, get_manifest_object.cache)}})

\* get_canvas that raises the not-found problem of a sequence
get_canvas_as_sequence(canvas_name) ==
    Respond(CanvasRequest(canvas_name), "SequenceNotFound", "sequence_name", canvas_name)

\* web.py: get_sequence, get_canvas, get_annotation
get_sequence(sequence_name) ==
    Respond(SequenceRequest(sequence_name), "SequenceNotFound", "sequence_name", sequence_name)
get_canvas(canvas_name) ==
    Respond(CanvasRequest(canvas_name), "CanvasNotFound", "canvas_name", canvas_name)
get_annotation(annotation_name) ==
    Respond(AnnotationRequest(annotation_name), "AnnotationNotFound", "annotation_name",
            annotation_name)

\* Inputs: identifiers, documents, image server answers, requested names
ManifestIds == {<<"m", "a">>, <<"m", "b">>}
ManPages == {"p1", "p2"}
ManImageIds == {"i1", "i2"}
ManKeys == <<K_uri, K_label, K_date, K_license_uri, K_page_uris, K_page_image_ids, K_page_label,
             K_Title>>
ManImgResponses ==
    {[kind |-> "ok", width |-> 1024, height |-> 768],
     [kind |-> "ok", width |-> 3, height |-> 4],
     [kind |-> "ConnectionError", width |-> 0, height |-> 0],
     [kind |-> "bad_status", width |-> 0, height |-> 0],
     [kind |-> "missing_field", width |-> 0, height |-> 0]}
Lookups == {"ok", "IdentifierError", "SolrDocumentNotFound", "SolrLookupError"}
ManDocument(titles, dates, licenses, pages, ids) ==
    (K_label :> titles) @@ (K_date :> dates) @@ (K_license_uri :> licenses)
    @@ (K_page_uris :> pages) @@ (K_page_image_ids :> ids) @@ (K_Title :> <<<<"s">>>>)
    @@ (K_uri :> <<"uri">>)
RequestNames ==
    {S_normal, <<"x">>}
    \cup {IntToStr(k) : k \in 0..MaxCanvases}
    \cup {IntToStr(k) \o S_image : k \in 0..MaxCanvases}

\* Either the page and image-id lists and the image server vary under a
\* complete document, or the scalar fields, the lookup and the context vary
\* over page lists with one image each.
ManInit ==
    /\ res_keys = ManKeys
    /\ \/ /\ \E ps \in StringsUpTo(ManPages, MaxCanvases),
                is \in StringsUpTo(ManImageIds, MaxCanvases) :
                res_results = ManDocument(<<"T1">>, <<"1999">>, <<"lic">>, ps, is)
          /\ man_images \in [ManImageIds -> ManImgResponses]
          /\ man_id = <<"m", "a">>
          /\ man_lookup = "ok"
          /\ man_text_query = NoQuery
          /\ man_logo = NoLogo
          /\ img_service = [thumbnail_width |-> DEFAULT_THUMBNAIL_WIDTH]
       \/ /\ \E ts \in {<<>>, <<"T1">>, <<"T1", "T2">>}, ds \in {<<>>, <<"1999">>},
                ls \in {<<>>, <<"lic">>}, n \in 0..MaxCanvases :
                res_results = ManDocument(ts, ds, ls,
                                          [k \in 1..n |-> IF k = 1 THEN "p1" ELSE "p2"],
                                          [k \in 1..n |-> IF k = 1 THEN "i1" ELSE "i2"])
          /\ man_images = [i \in ManImageIds |-> [kind |-> "ok", width |-> 1024, height |-> 768]]
          /\ man_id \in ManifestIds
          /\ man_lookup \in Lookups
          /\ man_text_query \in {NoQuery, "q1"}
          /\ man_logo \in {NoLogo, "logo"}
          /\ img_service \in [thumbnail_width : {DEFAULT_THUMBNAIL_WIDTH, MaxThumb}]
    /\ man_cache = NewCache
    /\ man_out = [op |-> "", arg |-> <<>>, result |-> <<>>]
    /\ man_calls = 0
    /\ res_out = [op |-> "", arg |-> "", result |-> <<>>]
    /\ img_response = [kind |-> "", width |-> 0, height |-> 0]
    /\ img_info = <<>> /\ img_fetches = 0
    /\ img_out = [op |-> "", result |-> <<>>]
    /\ RepoIdle /\ FmtIdle /\ SearchIdle /\ CtxIdle /\ ParIdle

man_env == <<man_id, man_lookup, man_images, man_text_query, man_logo, man_calls,
             repo_vars, fmt_vars, res_vars, img_vars, search_vars, ctx_vars, par_vars>>

\* ctx.get_manifest(id).to_dict(with_context)
ManifestToDictCall ==
    /\ man_out.op = ""
    /\ \E with_context \in BOOLEAN :
          \E r \in {ManifestToDict(with_context, man_cache)} :
              /\ man_out' = [op |-> "to_dict", arg |-> <<>>,
                             result |-> [ok |-> r.ok, err |-> r.err, val |-> r.val]]
              /\ man_cache' = r.cache
    /\ UNCHANGED man_env

\* A request to one of the named-node routes, answered by its handler; each
\* request has its own Manifest.
Request(op, name, answer) ==
    /\ man_out.op = ""
    /\ \E a \in {answer} :
          /\ man_out' = [op |-> op, arg |-> name, result |-> a.response]
          /\ man_cache' = a.cache
    /\ UNCHANGED man_env

GetSequence == \E name \in RequestNames : Request("get_sequence", name, get_sequence(name))
GetCanvas == \E name \in RequestNames : Request("get_canvas", name, get_canvas(name))
GetAnnotation == \E name \in RequestNames : Request("get_annotation", name, get_annotation(name))

ManNext == ManifestToDictCall \/ GetSequence \/ GetCanvas \/ GetAnnotation

SpecManifest == ManInit /\ [][ManNext]_vars

-----------------------------------------------------------------------------
(* Claims on the manifest graph *)

\* The document's title, date and license are there to be read.
ScalarsPresent ==
    /\ title(res_results) # <<>>
    /\ date(res_results).ok
    /\ license(res_results).ok

\* C8: with the resource found and its title, date and license present,
\* Manifest.to_dict of a resource without pages returns, and what it returns
\* has no 'thumbnail'; when to_dict of a resource with pages returns, its
\* 'thumbnail' is the thumbnail of the image annotation of the first canvas of
\* the first sequence, the image of the first page.
C8_ZeroPageManifest ==
    (man_out.op = "to_dict" /\ man_lookup = "ok" /\ ScalarsPresent) =>
        /\ NPages = 0 =>
              /\ man_out.result.ok
              /\ "thumbnail" \notin DOMAIN man_out.result.val
              /\ man_out.result.val.sequences[1].canvases = <<>>
        /\ (NPages > 0 /\ man_out.result.ok) =>
              /\ "thumbnail" \in DOMAIN man_out.result.val
              /\ man_out.result.val.thumbnail =
                    man_out.result.val.sequences[1].canvases[1].thumbnail
              /\ man_out.result.val.thumbnail =
                    ThumbnailDict(img_service, ImageInfoAt(1).val, FULL_IMAGE_PARAMS)

C8_Witness ==
    /\ man_out.op = "to_dict"
    /\ man_lookup = "ok" /\ ScalarsPresent
    /\ NPages = 0
    /\ man_out.result.ok
    /\ DOMAIN man_out.result.val =
          {"id", "type", "label", "metadata", "sequences", "navDate", "license"}

C8_WitnessPages ==
    /\ man_out.op = "to_dict"
    /\ NPages = 2
    /\ man_out.result.ok
    /\ man_out.result.val.thumbnail.width = DEFAULT_THUMBNAIL_WIDTH
    /\ man_out.result.val.thumbnail.service.id = <<"img", "/", "i2">>

\* The names the nodes of the manifest graph carry
SequenceNames == {S_normal}
CanvasNames == {CanvasName(pos) : pos \in 1..NPages}
AnnotationNames == {AnnotationName(pos) : pos \in 1..NPages}
GraphBuilt == \A pos \in 1..NPages : CanvasImageId(pos).ok

NotFoundAs(kind, title_text, param) ==
    /\ man_out.result.status = 404
    /\ man_out.result.kind = kind
    /\ man_out.result.params[param] = man_out.arg
    /\ man_out.result.params["manifest_id"] = man_id
    /\ man_out.result.body.title = title_text
    /\ Contains(man_out.result.body.details, man_out.arg)
    /\ Contains(man_out.result.body.details, man_id)

\* C10: for a manifest that is found and whose canvases can be built, a request
\* for a sequence, canvas or annotation name that no node carries is answered
\* with SequenceNotFound, CanvasNotFound or AnnotationNotFound respectively;
\* the problem carries the requested name and the manifest id, and both occur
\* in its formatted details.
C10_TypedNotFound ==
    (man_lookup = "ok" /\ GraphBuilt) =>
        /\ (man_out.op = "get_sequence" /\ man_out.arg \notin SequenceNames) =>
              NotFoundAs("SequenceNotFound", "Sequence not found", "sequence_name")
        /\ (man_out.op = "get_canvas" /\ man_out.arg \notin CanvasNames) =>
              NotFoundAs("CanvasNotFound", "Canvas not found", "canvas_name")
        /\ (man_out.op = "get_annotation" /\ man_out.arg \notin AnnotationNames) =>
              NotFoundAs("AnnotationNotFound", "Annotation not found", "annotation_name")

C10_Witness ==
    /\ man_out.op = "get_canvas"
    /\ man_lookup = "ok" /\ NPages = 2 /\ GraphBuilt
    /\ man_out.arg = <<"2">>
    /\ man_id = <<"m", "b">>
    /\ man_out.result.body =
          [status |-> 404, title |-> "Canvas not found",
           details |-> <<"Canvas with name \"", "2", "\" not found in manifest \"",
                         "m", "b", "\"">>]

\* C16: with a readable document, whatever fails in a backend client while a
\* node of the manifest graph is built or serialised reaches the caller as one
\* of the problem kinds: a route answers with the JSON or with a problem
\* detail, and Manifest.to_dict returns or raises a problem.
C16_NoUntranslatedLeak ==
    (ScalarsPresent /\ GraphBuilt) =>
        /\ man_out.op \in {"get_sequence", "get_canvas", "get_annotation"} =>
              \/ man_out.result.status = 200
              \/ man_out.result.kind \in ProblemKinds \cup {"ConfigurationProblem"}
        /\ man_out.op = "to_dict" =>
              \/ man_out.result.ok
              \/ man_out.result.err \in ProblemKinds \cup {"ConfigurationProblem"}

\* A serialised sequence of the document's pages: named 'normal', one canvas
\* per page in page order, the k-th (from 0) named str(k), labelled after
\* page k and holding one image annotation str(k)-image that paints it;
\* 'startCanvas' exactly when there is a canvas, and then the first one.
WellComposed(sequence_info) ==
    LET cs == sequence_info.canvases
    IN  /\ sequence_info.id = ManifestBase \o <<"/sequence/">> \o <<"n", "o", "r", "m", "a", "l">>
        /\ Len(cs) = Len(res_results[K_page_uris])
        /\ \A k \in 0..(Len(cs) - 1) :
              /\ cs[k + 1].id = ManifestBase \o <<"/canvas/">> \o IntToStr(k)
              /\ cs[k + 1].label = get_page_title(res_results, res_results[K_page_uris][k + 1])
              /\ Len(cs[k + 1].images) = 1
              /\ cs[k + 1].images[1].id =
                    ManifestBase \o <<"/annotation/">> \o IntToStr(k)
                                 \o <<"-", "i", "m", "a", "g", "e">>
              /\ cs[k + 1].images[1].motivation = "sc:painting"
              /\ cs[k + 1].images[1].on = cs[k + 1].id
        /\ ("startCanvas" \in DOMAIN sequence_info) <=> (cs # <<>>)
        /\ cs # <<>> => sequence_info.startCanvas = cs[1].id

\* C17: a manifest that serialises has exactly one sequence, and that sequence
\* is well composed; the route of sequence 'normal' answers with that sequence.
C17_SequenceComposition ==
    /\ (man_out.op = "to_dict" /\ man_out.result.ok) =>
          /\ Len(man_out.result.val.sequences) = 1
          /\ WellComposed(man_out.result.val.sequences[1])
    /\ (man_out.op = "get_sequence" /\ man_out.result.status = 200) =>
          /\ man_out.arg = <<"n", "o", "r", "m", "a", "l">>
          /\ WellComposed(man_out.result.body)

C17_Witness ==
    /\ man_out.op = "to_dict" /\ man_out.result.ok
    /\ res_results[K_page_uris] = <<"p2", "p1">>
    /\ res_results[K_page_image_ids] = <<"i2", "i1">>
    /\ man_out.result.val.sequences[1].canvases[2].id = <<"base", "/", "m", "a", "/canvas/", "1">>
    /\ man_out.result.val.sequences[1].canvases[2].label = <<"label of ", "p1">>
    /\ man_out.result.val.sequences[1].canvases[2].images[1].resource.service.id =
          <<"img", "/", "i1">>
    /\ man_out.result.val.sequences[1].startCanvas = <<"base", "/", "m", "a", "/canvas/", "0">>

\* C23: a route answers SequenceNotFound, CanvasNotFound or AnnotationNotFound
\* only if no sequence, canvas or annotation of the manifest carries the
\* requested name; a failure while the named node is serialised is never
\* reported as not found.
C23_NotFoundOnlyWhenAbsent ==
    (man_out.op \in {"get_sequence", "get_canvas", "get_annotation"}
        /\ man_out.result.status # 200) =>
        /\ man_out.result.kind = "SequenceNotFound" => man_out.arg \notin SequenceNames
        /\ man_out.result.kind = "CanvasNotFound" => man_out.arg \notin CanvasNames
        /\ man_out.result.kind = "AnnotationNotFound" => man_out.arg \notin AnnotationNames

\* C24: when the page list and the image-id list have the same length, the
\* canvas at each position is bound to the image id at that position, also
\* when a page URI occurs at several positions.  (Read off the serialised
\* canvases: the image service URI of a canvas ends in its image id.)
C24_PositionalImageBinding ==
    (man_out.op = "to_dict" /\ man_out.result.ok
        /\ Len(res_results[K_page_uris]) = Len(res_results[K_page_image_ids])) =>
        \A k \in 1..Len(res_results[K_page_uris]) :
            man_out.result.val.sequences[1].canvases[k].images[1].resource.service.id =
                <<"img", "/", res_results[K_page_image_ids][k]>>

-----------------------------------------------------------------------------
(* source.py: SolrService.get_doc, get_resource;
   iiif2.py: PresentationContext.get_resource_uri, get_resource *)

\* The classes an exception is an instance of
Bases(e) ==
    IF e = "SolrDocumentNotFound" THEN {"SolrDocumentNotFound", "SolrLookupError"} ELSE {e}
IsInstance(e, cls) == cls \in Bases(e)

\* pysolr's search with the term query on uri_field: the documents of the core
\* whose id is the URI, in the core's order, or a SolrError
SolrSearch(core, resource_uri) ==
    IF core.fault = "SolrError" THEN Raise("SolrError")
    ELSE LET Matches(d) == d.id = resource_uri
         IN  Return(SelectSeq(core.docs, Matches))

\* SolrService.get_doc that takes the first of several matches
get_doc_first_match(core, resource_uri) ==
    LET results == SolrSearch(core, resource_uri)
    IN  IF ~results.ok THEN Raise("SolrLookupError")
        ELSE IF Len(results.val) = 0 THEN Raise("SolrDocumentNotFound")
        ELSE Return(results.val[1])

\* SolrService.get_doc(resource_uri)
get_doc(core, resource_uri) ==
    LET results == SolrSearch(core, resource_uri)
    IN  IF ~results.ok THEN Raise("SolrLookupError")
        ELSE IF Len(results.val) = 0 THEN Raise("SolrDocumentNotFound")
        ELSE IF Len(results.val) > 1 THEN Raise("SolrLookupError")
        ELSE Return(results.val[1])

\* SolrService.get_resource(resource_uri): Resource(doc, metadata_queries)
solr_get_resource(core, resource_uri) ==
    LET doc == get_doc(core, resource_uri)
    IN  IF doc.ok THEN Return([doc |-> doc.val, metadata_queries |-> "metadata_queries"])
        ELSE doc

\* Resource.uri, with '.id' as the query of key $uri
ResourceUri(resource) == First(<<resource.doc.id>>)

\* The parameters the context's problems are raised with
ProblemParams(kind, manifest_id) ==
    CASE kind = "IdentifierProblem" -> [iiif_id |-> manifest_id]
      [] kind = "ManifestNotFound"  -> [id |-> manifest_id]
      [] OTHER -> <<>>

\* What the backend lookup of an identifier comes to, before translation
BackendLookup(svc, core, manifest_id) ==
    LET u == get_resource_uri(svc, manifest_id)
    IN  IF ~u.ok THEN u ELSE solr_get_resource(core, u.val)

\* PresentationContext.get_resource(manifest_id): the Resource or the problem
\* raised, and the number of searches sent to the core
context_get_resource(svc, core, manifest_id) ==
    LET low == BackendLookup(svc, core, manifest_id)
        t   == get_resource(IF low.ok THEN "ok" ELSE low.err)
    IN  [outcome |-> IF low.ok THEN low ELSE t,
         params  |-> IF low.ok THEN <<>> ELSE ProblemParams(t.err, manifest_id),
         queries |-> IF get_resource_uri(svc, manifest_id).ok THEN 1 ELSE 0]

\* Inputs: one repository, documents, URIs and identifiers
CtxServices == {[endpoint |-> <<"h">>, prefix |-> <<"p", ":">>, path_sep |-> ":"]}
CtxUris == {<<"h", "/", "a">>, <<"h", "/", "b">>}
CtxIds == {<<"p", ":", "a">>, <<"p", ":", "b">>, <<"a">>, <<"p">>}
CtxDocs == [id : CtxUris, rev : {1, 2}]
CtxIndexes == [fault : {"none", "SolrError"}, docs : StringsUpTo(CtxDocs, MaxDocs)]

CtxInit ==
    /\ ctx_service \in CtxServices
    /\ ctx_index \in CtxIndexes
    /\ ctx_arg \in CtxUris \cup CtxIds
    /\ ctx_queries = 0
    /\ ctx_out = [op |-> "", result |-> <<>>]
    /\ RepoIdle /\ FmtIdle /\ ResIdle /\ ImgIdle /\ SearchIdle /\ ManIdle /\ ParIdle

ctx_env == <<ctx_service, ctx_index, ctx_arg,
             repo_vars, fmt_vars, res_vars, img_vars, search_vars, man_vars, par_vars>>

\* SolrService.get_doc(resource_uri)
GetDoc ==
    /\ ctx_out.op = ""
    /\ ctx_out' = [op |-> "get_doc", result |-> get_doc(ctx_index, ctx_arg)]
    /\ ctx_queries' = ctx_queries + 1
    /\ UNCHANGED ctx_env

\* SolrService.get_resource(resource_uri)
GetResource ==
    /\ ctx_out.op = ""
    /\ ctx_out' = [op |-> "get_resource", result |-> solr_get_resource(ctx_index, ctx_arg)]
    /\ ctx_queries' = ctx_queries + 1
    /\ UNCHANGED ctx_env

\* PresentationContext.get_resource(manifest_id)
ContextGetResource ==
    /\ ctx_out.op = ""
    /\ \E r \in {context_get_resource(ctx_service, ctx_index, ctx_arg)} :
          /\ ctx_out' = [op |-> "context.get_resource",
                         result |-> [ok |-> r.outcome.ok, err |-> r.outcome.err,
                                     val |-> r.outcome.val, params |-> r.params]]
          /\ ctx_queries' = ctx_queries + r.queries
    /\ UNCHANGED ctx_env

CtxNext == GetDoc \/ GetResource \/ ContextGetResource

SpecContext == CtxInit /\ [][CtxNext]_vars

-----------------------------------------------------------------------------
(* Claims on the document lookup *)

\* The documents of the core whose id is the URI asked for
MatchesOf(resource_uri) == {k \in 1..Len(ctx_index.docs) : ctx_index.docs[k].id = resource_uri}

\* C11: get_doc returns a document exactly when the backend answers with one
\* match, and then it is that match; no match is SolrDocumentNotFound; several
\* matches are a SolrLookupError that is not SolrDocumentNotFound; a SolrError
\* of the backend is a SolrLookupError; get_resource gives a Resource of that
\* one document, whose uri is the document's.
C11_DocumentLookup ==
    LET n   == Cardinality(MatchesOf(ctx_arg))
        ok  == ctx_index.fault = "none"
        res == ctx_out.result
    IN  /\ ctx_out.op \in {"get_doc", "get_resource"} =>
              /\ res.ok <=> (ok /\ n = 1)
              /\ (ok /\ n = 0) => res.err = "SolrDocumentNotFound"
              /\ (ok /\ n > 1) => /\ IsInstance(res.err, "SolrLookupError")
                                  /\ ~IsInstance(res.err, "SolrDocumentNotFound")
              /\ ~ok => ~res.ok /\ IsInstance(res.err, "SolrLookupError")
        /\ (ctx_out.op = "get_doc" /\ res.ok) =>
              \E k \in MatchesOf(ctx_arg) : res.val = ctx_index.docs[k]
        /\ (ctx_out.op = "get_resource" /\ res.ok) =>
              /\ \E k \in MatchesOf(ctx_arg) : res.val.doc = ctx_index.docs[k]
              /\ ResourceUri(res.val) = Return(ctx_arg)

C11_Witness ==
    /\ ctx_out.op = "get_resource"
    /\ ctx_index = [fault |-> "none",
                    docs |-> <<[id |-> <<"h", "/", "b">>, rev |-> 1],
                               [id |-> <<"h", "/", "a">>, rev |-> 2]>>]
    /\ ctx_arg = <<"h", "/", "a">>
    /\ ctx_out.result.ok
    /\ ctx_out.result.val.doc = [id |-> <<"h", "/", "a">>, rev |-> 2]

\* The problem detail of the problem a context lookup raised
CtxProblem == as_problem_detail(ctx_out.result.err, ctx_out.result.params).val

\* C12: PresentationContext.get_resource(id) answers an id without the prefix
\* with IdentifierProblem (400) and sends no search; a lookup that matches no
\* document with ManifestNotFound (404) carrying the id; every other failed
\* lookup (a SolrError, several matches) with ServiceProblem (500), whose
\* details are the one fixed text; a missing document is never a ServiceProblem.
C12_ContextErrorTranslation ==
    LET res      == ctx_out.result
        uri      == get_resource_uri(ctx_service, ctx_arg)
        n        == Cardinality(MatchesOf(uri.val))
        answered == ctx_index.fault = "none"
    IN  ctx_out.op = "context.get_resource" =>
          /\ ~StartsWith(ctx_arg, ctx_service.prefix) =>
                /\ ~res.ok /\ res.err = "IdentifierProblem"
                /\ CtxProblem.status = 400
                /\ ctx_queries = 0
          /\ (uri.ok /\ answered /\ n = 0) =>
                /\ ~res.ok /\ res.err = "ManifestNotFound"
                /\ CtxProblem.status = 404
                /\ res.params = [id |-> ctx_arg]
                /\ Contains(CtxProblem.details, ctx_arg)
          /\ (uri.ok /\ (~answered \/ n > 1)) =>
                /\ ~res.ok /\ res.err = "ServiceProblem"
                /\ CtxProblem = [status |-> 500, title |-> "Backend service error",
                                 details |-> <<"Backend service error">>]
          /\ (uri.ok /\ answered /\ n = 1) => res.ok

C12_Witness ==
    /\ ctx_out.op = "context.get_resource"
    /\ ctx_arg = <<"p", ":", "a">>
    /\ ctx_index.fault = "none"
    /\ Len(ctx_index.docs) = 2 /\ \A k \in 1..2 : ctx_index.docs[k].id = <<"h", "/", "b">>
    /\ ctx_out.result.err = "ManifestNotFound"
    /\ ctx_queries = 1
    /\ CtxProblem.details = <<"Manifest with identifier \"", "p", ":", "a", "\" not found">>

C12_WitnessIdentifier ==
    /\ ctx_out.op = "context.get_resource"
    /\ ctx_arg = <<"a">>
    /\ Len(ctx_index.docs) = 2
    /\ ctx_out.result.err = "IdentifierProblem"
    /\ ctx_queries = 0

-----------------------------------------------------------------------------
(* iiif2.py: PresentationContext.get_manifest, and accesses on the Manifest *)

NoManifest == <<>>

\* A get_manifest that looks the resource up while constructing
get_manifest_eager(manifest_id, text_query) == ManifestResource(NewCache).cache

\* PresentationContext.get_manifest(manifest_id, text_query): the cached
\* properties of the Manifest it returns
get_manifest(manifest_id, text_query) == NewCache

AccessNames == {S_normal, <<"x">>, <<"0">>, <<"1">>, <<"0">> \o S_image}

\* What Solr answers to a highlighting query: a hit on page 0 and one on page
\* 1, a hit without bounding box, or an error
AccessResponses ==
    {[kind |-> "ok", fragments |-> <<SEG_text \o <<MATCH_TAG>> \o SEG_zero,
                                     SEG_text \o <<MATCH_TAG>> \o SEG_foo>>],
     [kind |-> "ok", fragments |-> <<SEG_text \o <<MATCH_TAG>> \o SEG_zero \o <<MATCH_TAG>>
                                     \o SEG_text \o <<MATCH_TAG>>
                                     \o <<"x", "|", "n", "=", "0">>>>],
     [kind |-> "SolrError", fragments |-> <<>>]}

\* A complete document of 0..MaxCanvases pages, any outcome of the lookup, an
\* image server that answers, or fails for the second image, and a Solr core.
AccessInit ==
    /\ res_keys = ManKeys
    /\ \E n \in 0..MaxCanvases :
          res_results = ManDocument(<<"T1">>, <<"1999">>, <<"lic">>,
                                    [k \in 1..n |-> IF k = 1 THEN "p1" ELSE "p2"],
                                    [k \in 1..n |-> IF k = 1 THEN "i1" ELSE "i2"])
    /\ \E second \in {"ok", "ConnectionError"} :
          man_images = ("i1" :> [kind |-> "ok", width |-> 1024, height |-> 768])
                       @@ ("i2" :> [kind |-> second, width |-> 3, height |-> 4])
    /\ man_id = <<"m", "a">>
    /\ man_lookup \in Lookups
    /\ man_text_query \in {NoQuery, "q1"}
    /\ man_logo = NoLogo
    /\ img_service = [thumbnail_width |-> DEFAULT_THUMBNAIL_WIDTH]
    /\ man_cache = NoManifest
    /\ man_out = [op |-> "", arg |-> <<>>, result |-> <<>>]
    /\ man_calls = 0
    /\ res_out = [op |-> "", arg |-> "", result |-> <<>>]
    /\ img_response = [kind |-> "", width |-> 0, height |-> 0]
    /\ img_info = <<>> /\ img_fetches = 0
    /\ img_out = [op |-> "", result |-> <<>>]
    /\ solr_response \in AccessResponses
    /\ search_out = [op |-> "", index |-> -1, result |-> <<>>]
    /\ RepoIdle /\ FmtIdle /\ CtxIdle /\ ParIdle

access_env == <<man_id, man_lookup, man_images, man_text_query, man_logo,
                repo_vars, fmt_vars, res_vars, img_vars, search_vars, ctx_vars, par_vars>>

\* ctx.get_manifest(id, text_query)
GetManifest ==
    /\ man_cache = NoManifest
    /\ man_cache' = get_manifest(man_id, man_text_query)
    /\ man_out' = [op |-> "get_manifest", arg |-> <<>>, result |-> Return("manifest")]
    /\ UNCHANGED <<man_calls, access_env>>

\* One more access on the Manifest, by a caller that stops at the first exception
Access(op, name, outcome) ==
    /\ man_cache # NoManifest
    /\ man_calls < MaxCalls
    /\ man_out.result.ok
    /\ \E o \in {outcome} :
          /\ man_out' = [op |-> op, arg |-> name,
                         result |-> [ok |-> o.ok, err |-> o.err, val |-> o.val]]
          /\ man_cache' = o.cache
    /\ man_calls' = man_calls + 1
    /\ UNCHANGED access_env

AccessToDict ==
    \E with_context \in BOOLEAN : Access("to_dict", <<>>, ManifestToDict(with_context, man_cache))
AccessFindSequence ==
    \E name \in AccessNames : Access("find_sequence", name, find_sequence(name, man_cache))
AccessFindCanvas ==
    \E name \in AccessNames : Access("find_canvas", name, find_canvas(name, man_cache))
AccessFindAnnotation ==
    \E name \in AccessNames : Access("find_annotation", name, find_annotation(name, man_cache))


\* manifest.find_sequence(name).to_dict() and manifest.find_canvas(name).to_dict()
AccessSequenceToDict ==
    \E name \in AccessNames :
       Access("sequence_to_dict", name,
              The({IF ~f.ok THEN f ELSE SequenceToDict(f.val, FALSE, f.cache)
                   : f \in {find_sequence(name, man_cache)}}))
AccessCanvasToDict ==
    \E name \in AccessNames :
       Access("canvas_to_dict", name,
              The({IF ~f.ok THEN f ELSE CanvasToDict(f.val, FALSE, f.cache)
                   : f \in {find_canvas(name, man_cache)}}))

\* The query of the SearchHitsList a caller holds for a canvas
ListQuery == IF man_text_query # NoQuery THEN man_text_query ELSE "q1"

\* Reading search_hits, annotations or to_dict() of the SearchHitsList the
\* caller holds for the canvas of that name
AccessSearchHits ==
    \E name \in AccessNames :
       Access("search_hits", name,
              The({IF ~f.ok THEN f ELSE search_hits(f.val, f.cache)
                   : f \in {find_canvas(name, man_cache)}}))
AccessAnnotations ==
    \E name \in AccessNames :
       Access("annotations", name,
              The({IF ~f.ok THEN f ELSE annotations(f.val, f.cache)
                   : f \in {find_canvas(name, man_cache)}}))
AccessListToDict ==
    \E name \in AccessNames :
       Access("list_to_dict", name,
              The({IF ~f.ok THEN f ELSE SearchHitsListToDict(f.val, ListQuery, TRUE, f.cache)
                   : f \in {find_canvas(name, man_cache)}}))

AccessNext ==
    \/ GetManifest \/ AccessToDict \/ AccessFindSequence \/ AccessFindCanvas
    \/ AccessFindAnnotation \/ AccessSequenceToDict \/ AccessCanvasToDict
    \/ AccessSearchHits \/ AccessAnnotations \/ AccessListToDict

SpecAccess == AccessInit /\ [][AccessNext]_vars

-----------------------------------------------------------------------------
(* Claims on the Manifest object *)

\* C14: get_manifest returns a Manifest for which nothing has been looked up,
\* fetched or built, whatever the id; the document lookup is made by the first
\* access, which is where an id that is malformed or unknown is reported.
C14_LazyConstruction ==
    /\ man_out.op = "get_manifest" =>
          /\ man_out.result.ok
          /\ man_cache.lookups = 0 /\ man_cache.fetches = 0
          /\ ~man_cache.resource /\ ~man_cache.sequences /\ ~man_cache.canvases
          /\ man_cache.annotations = {} /\ man_cache.infos = {}
    /\ (man_cache # NoManifest /\ man_calls = 1) =>
          /\ man_cache.lookups = 1
          /\ man_lookup # "ok" =>
                /\ ~man_out.result.ok
                /\ man_out.result.err = get_resource(man_lookup).err

C14_Witness ==
    /\ man_out.op = "find_canvas"
    /\ man_calls = 1
    /\ man_lookup = "SolrDocumentNotFound"
    /\ man_out.result.err = "ManifestNotFound"
    /\ man_cache.lookups = 1

\* C15: as long as the accesses on one Manifest succeed, the document is looked
\* up at most once, the sequence list and the canvas list are built at most
\* once, and every Image whose metadata is known was fetched once; a first
\* to_dict of N pages makes one lookup and N fetches.
C15_ComputeOnce ==
    (man_cache # NoManifest /\ man_out.result.ok) =>
        /\ man_cache.lookups <= 1
        /\ man_cache.sequence_builds <= 1
        /\ man_cache.canvas_builds <= 1
        /\ man_cache.fetches = Cardinality(man_cache.infos)
        /\ man_cache.infos \subseteq 1..NPages
        /\ man_out.op = "to_dict" =>
              /\ man_cache.lookups = 1
              /\ man_cache.fetches = NPages

C15_Witness ==
    /\ man_calls = 2
    /\ man_out.op = "to_dict" /\ man_out.result.ok
    /\ NPages = 2
    /\ man_cache.lookups = 1 /\ man_cache.fetches = 2
    /\ man_cache.sequence_builds = 1 /\ man_cache.canvas_builds = 1

\* The 'otherContent' of the serialised canvas of page index k: with a text
\* query, one reference to the canvas's SearchHitsList; without, nothing
ExpectedOtherContent(k) ==
    IF man_text_query # NoQuery
    THEN <<[id |-> <<"base", "/">> \o man_id \o <<"/list/">> \o IntToStr(k)
                      \o <<"-", "s", "e", "a", "r", "c", "h", "?", "q", "=">> \o <<man_text_query>>,
            type |-> "sc:AnnotationList"]>>
    ELSE <<>>
CanvasesReferToLists(canvases) ==
    \A k \in 0..(Len(canvases) - 1) : canvases[k + 1].otherContent = ExpectedOtherContent(k)

\* What serialised canvases hold, and how often the search service was called
ReferencesOnly ==
    /\ (man_out.op = "to_dict" /\ man_out.result.ok) =>
          CanvasesReferToLists(man_out.result.val.sequences[1].canvases)
    /\ (man_out.op = "sequence_to_dict" /\ man_out.result.ok) =>
          CanvasesReferToLists(man_out.result.val.canvases)
    /\ (man_out.op = "canvas_to_dict" /\ man_out.result.ok) =>
          \E k \in 0..(NPages - 1) :
             man_out.arg = IntToStr(k) /\ man_out.result.val.otherContent = ExpectedOtherContent(k)
    /\ man_cache # NoManifest =>
          \A i, j \in 1..Len(man_cache.searches) :
             i # j => man_cache.searches[i] # man_cache.searches[j]

\* What one access on the Manifest or on a SearchHitsList does to the calls
\* made to the search service
SearchOnlyOnRead ==
    man_calls' = man_calls + 1 =>
        /\ man_out'.op \notin {"search_hits", "annotations", "list_to_dict"} =>
              man_cache'.searches = man_cache.searches
        /\ man_cache'.searches # man_cache.searches =>
              \E k \in 0..(NPages - 1) :
                 /\ man_out'.arg = IntToStr(k)
                 /\ man_cache'.searches = Append(man_cache.searches, k)
                 /\ (k + 1) \notin man_cache.hits

\* C25: serialising a manifest, a sequence or a canvas never calls the search
\* service; a serialised canvas holds exactly one 'otherContent' entry, the
\* URI of its SearchHitsList, when a text query is active and none otherwise;
\* the search service is called only by reading a SearchHitsList's hits or
\* annotations, with the page index of its canvas, and once per list.
C25_SearchReferenceOnly == []ReferencesOnly /\ [][SearchOnlyOnRead]_vars

C25_Witness ==
    /\ man_calls = 2
    /\ man_text_query = "q1"
    /\ man_out.op = "list_to_dict" /\ man_out.arg = <<"1">>
    /\ man_out.result.ok
    /\ man_cache.fetches = 2
    /\ man_cache.searches = <<1>>
    /\ Len(man_out.result.val.resources) = 1
    /\ man_out.result.val.resources[1].on.selector.value =
          <<"xywh=", "1", ",", "2", ",", "3", ",", "4">>

C25_WitnessCanvas ==
    /\ man_out.op = "canvas_to_dict" /\ man_out.arg = <<"1">>
    /\ man_out.result.ok
    /\ man_text_query = "q1"
    /\ Len(man_out.result.val.otherContent) = 1
    /\ man_cache.searches = <<>>

-----------------------------------------------------------------------------
(* iiif2.py: a cached_property (Image.info, Manifest.resource) of a node     *)
(* that several callers share                                              *)

\* The callers, and what the image server may answer to any one request
Callers == 1..MaxCallers
ParResponses ==
    {[kind |-> "ok", width |-> 1024, height |-> 768],
     [kind |-> "ok", width |-> 3, height |-> 4],
     [kind |-> "ConnectionError", width |-> 0, height |-> 0],
     [kind |-> "bad_status", width |-> 0, height |-> 0]}

\* Two or more callers are about to read Image.info of the same new Image;
\* the others have no part in it.
ParInit ==
    /\ par_cell = NoInfo
    /\ par_fetches = 0
    /\ par_pc \in [Callers -> {"get", "away"}]
    /\ Cardinality({t \in Callers : par_pc[t] = "get"}) >= 2
    /\ par_val = [t \in Callers |-> <<>>]
    /\ RepoIdle /\ FmtIdle /\ ResIdle /\ ImgIdle /\ SearchIdle /\ ManIdle /\ CtxIdle

par_env == <<repo_vars, fmt_vars, res_vars, img_vars, search_vars, man_vars, ctx_vars>>

\* cached_property.__get__: val = cache.get(attrname, _NOT_FOUND).  The
\* property takes no lock, so callers interleave between its steps.
Lookup(t) ==
    /\ par_pc[t] = "get"
    /\ IF par_cell # NoInfo
       THEN /\ par_val' = [par_val EXCEPT ![t] = Return(par_cell)]
            /\ par_pc' = [par_pc EXCEPT ![t] = "returned"]
       ELSE /\ par_pc' = [par_pc EXCEPT ![t] = "call"]
            /\ UNCHANGED par_val
    /\ UNCHANGED <<par_cell, par_fetches, par_env>>

\* val = self.func(instance): Image.info's body, service.get_metadata(image_id);
\* an exception leaves __get__ with nothing stored
Compute(t) ==
    /\ par_pc[t] = "call"
    /\ \E response \in ParResponses :
          \E i \in {get_metadata(response)} :
             /\ par_val' = [par_val EXCEPT ![t] = i]
             /\ par_pc' = [par_pc EXCEPT ![t] = IF i.ok THEN "store" ELSE "raised"]
    /\ par_fetches' = par_fetches + 1
    /\ UNCHANGED <<par_cell, par_env>>

\* cache[attrname] = val; return val
Store(t) ==
    /\ par_pc[t] = "store"
    /\ par_cell' = par_val[t].val
    /\ par_pc' = [par_pc EXCEPT ![t] = "returned"]
    /\ UNCHANGED <<par_val, par_fetches, par_env>>

ParNext == \E t \in Callers : Lookup(t) \/ Compute(t) \/ Store(t)

SpecShared == ParInit /\ [][ParNext]_vars

\* C22: when callers that share a node have all read its lazy field, none of
\* them failing, the field's fetch has run exactly once and every caller got
\* the stored value.
C22_ConcurrentFirstAccess ==
    (\A t \in Callers : par_pc[t] \in {"returned", "away"}) =>
        /\ par_fetches = 1
        /\ \A t \in Callers : par_pc[t] = "returned" => par_val[t] = Return(par_cell)

====
